---- MODULE Spec2Model ----
(***************************************************************************)
(* Model of the roaming client of the cell-mesh simulator                  *)
(* (src/src/client_roaming_led.py): the tower registry loader, the scan    *)
(* parser, the reconcile step, the signal-to-level mapping, the roam       *)
(* decision engine (maybe_roam) and the daemon loop that drives it on the  *)
(* scan cadence and renders the indicator on the poll cadence.             *)
(*                                                                         *)
(* Conventions.  A Python Optional is a sequence of length at most one:    *)
(* None is <<>> and a present value v is <<v>>.  A Python dict is the      *)
(* sequence of its values in insertion order (every value carries its key  *)
(* in the field ssid), so that iteration order is the code's.  Signals are *)
(* whole dBm, times are whole seconds.                                     *)
(***************************************************************************)
EXTENDS Integers, Sequences, FiniteSets, TLC

None == <<>>
Some(v) == <<v>>

(***************************************************************************)
(* Bounds of the model.                                                    *)
(***************************************************************************)
\* longest scan text, in lines, the parser specification feeds the parser
MaxScanLines == 4
\* the daemon's monotonic clock is followed up to this reading
MaxTime == 9
\* latest reading of the monotonic clock at daemon start
MaxStart == 2
\* longest extra delay (blocking calls) of one loop iteration beyond the poll wait
MaxDelay == 1

(***************************************************************************)
(* Configuration: RuntimeConfig values as load_runtime_config accepts them.*)
(***************************************************************************)
roam_cooldown_sec == 4
scan_interval_sec == 2
poll_interval_sec == 1
disconnect_grace_sec == 3
unknown_mode == "off"
scan_freshness_ms == 1500
\* roam_margin_db is any number; the default and a sticky one
RoamMargins == {-2, 5}

(***************************************************************************)
(* Text of the wireless tool.  A scan line is what the three scan regexes  *)
(* capture on it: bss is group 1 of SCAN_BSS_RE, signal of SCAN_SIGNAL_RE, *)
(* age of SCAN_LAST_SEEN_RE, each None when the regex does not match.      *)
(***************************************************************************)
ADDR_A == "aa:aa:aa:aa:aa:aa"
ADDR_A_UPPER == "AA:AA:AA:AA:AA:AA"
ADDR_B == "bb:bb:bb:bb:bb:bb"
ADDR_C == "cc:cc:cc:cc:cc:cc"
ADDR_X == "0e:11:22:33:44:55"
\* 17 characters of [0-9a-f:] that are no address: SCAN_BSS_RE matches them
ADDR_BAD == "aa:aa:aa:aa:aa:a:"

\* BSSID_RE.match on the (lowercased) addresses of the model
IsBssid(s) == s \in {ADDR_A, ADDR_B, ADDR_C, ADDR_X}

\* str.lower() on the addresses of the model
lower(s) == IF s = ADDR_A_UPPER THEN ADDR_A ELSE s

ValueError == "ValueError"
\* float(text) for the texts [-0-9.]+ of the model; "-" is no number
FloatTable == [t \in {"-72.00", "-70.00", "-65.00"} |->
                 CASE t = "-72.00" -> -72 [] t = "-70.00" -> -70 [] t = "-65.00" -> -65]
IsFloat(t) == t \in DOMAIN FloatTable
float(t) == FloatTable[t]

\* int(text) for the texts [0-9]+ of the model
IntTable == [t \in {"500", "2000"} |-> IF t = "500" THEN 500 ELSE 2000]
int(t) == IntTable[t]

\* header says whether the line opens a block of the tool's output ("BSS ...");
\* the parser never reads it, it reads what the regexes capture
Line(b, s, a) == [bss |-> b, signal |-> s, age |-> a, header |-> b # None]
BssLine(addr) == Line(Some(addr), None, None)
\* a header whose address is not 17 characters of [0-9a-f:], as in
\* "BSS aa:aa:aa:aa:aa:a(on wlan0)": SCAN_BSS_RE does not match the line
UnmatchedBssLine == [bss |-> None, signal |-> None, age |-> None, header |-> TRUE]
SignalLine(t) == Line(None, Some(t), None)
AgeLine(t) == Line(None, None, Some(t))
OtherLine == Line(None, None, None)

(***************************************************************************)
(* dict helpers: a dict of SeenTower keyed by ssid, in insertion order.    *)
(***************************************************************************)
Keys(d) == {d[i].ssid : i \in 1..Len(d)}
DictGet(d, k) ==
    IF k \in Keys(d) THEN Some(d[CHOOSE i \in 1..Len(d) : d[i].ssid = k]) ELSE None
DictSet(d, k, v) ==
    IF k \in Keys(d)
    THEN [i \in 1..Len(d) |-> IF d[i].ssid = k THEN v ELSE d[i]]
    ELSE Append(d, v)
\* bssid_map.get(bssid): the registry's reverse index is a function on addresses
MapGet(m, k) == IF k \in DOMAIN m THEN Some(m[k]) ELSE None

SeenTower(ssid, bssid, signal_dbm, age_ms, source) ==
    [ssid |-> ssid, bssid |-> bssid, signal_dbm |-> signal_dbm,
     age_ms |-> age_ms, source |-> source]

(***************************************************************************)
(* parse_scan_seen_towers.  The parser state is the closure's variables.   *)
(***************************************************************************)
ParserInit == [seen |-> <<>>, cur_bssid |-> None, cur_signal |-> None,
               cur_age_ms |-> None, raised |-> FALSE]

commit_current_any_address(st, bmap) ==
    IF st.cur_bssid = None \/ st.cur_signal = None THEN st.seen
    ELSE LET ssid == IF MapGet(bmap, st.cur_bssid[1]) = None THEN "?"
                     ELSE MapGet(bmap, st.cur_bssid[1])[1]
             prev == DictGet(st.seen, ssid)
         IN  IF prev = None \/ st.cur_signal[1] > prev[1].signal_dbm
             THEN DictSet(st.seen, ssid,
                          SeenTower(ssid, st.cur_bssid[1], st.cur_signal[1],
                                    st.cur_age_ms, "scan"))
             ELSE st.seen

commit_current(st, bmap) ==
    IF st.cur_bssid = None \/ st.cur_signal = None THEN st.seen
    ELSE LET ssid == MapGet(bmap, st.cur_bssid[1]) IN
         IF ssid = None THEN st.seen
         ELSE LET prev == DictGet(st.seen, ssid[1]) IN
              IF prev = None \/ st.cur_signal[1] > prev[1].signal_dbm
              THEN DictSet(st.seen, ssid[1],
                           SeenTower(ssid[1], st.cur_bssid[1], st.cur_signal[1],
                                     st.cur_age_ms, "scan"))
              ELSE st.seen

\* one turn of the loop over scan_output.splitlines()
ParseLine(st, line, bmap) ==
    IF st.raised THEN st
    ELSE IF line.bss # None
    THEN [st EXCEPT !.seen = commit_current(st, bmap),
                    !.cur_bssid = Some(lower(line.bss[1])),
                    !.cur_signal = None,
                    !.cur_age_ms = None]
    ELSE IF st.cur_bssid = None THEN st
    ELSE IF line.signal # None
    THEN IF IsFloat(line.signal[1])
         THEN [st EXCEPT !.cur_signal = Some(float(line.signal[1]))]
         ELSE [st EXCEPT !.raised = TRUE]
    ELSE IF line.age # None
    THEN [st EXCEPT !.cur_age_ms = Some(int(line.age[1]))]
    ELSE st

RECURSIVE ParseLines(_, _, _)
ParseLines(st, lines, bmap) ==
    IF lines = <<>> THEN st
    ELSE ParseLines(ParseLine(st, Head(lines), bmap), Tail(lines), bmap)

\* the result: the dict returned, or the exception that leaves the function
parse_scan_seen_towers(scan_output, bmap) ==
    LET st == ParseLines(ParserInit, scan_output, bmap) IN
    IF st.raised THEN [exc |-> ValueError, seen |-> <<>>]
    ELSE [exc |-> "", seen |-> commit_current(st, bmap)]

(***************************************************************************)
(* The registry of the daemon (load_tower_config's bssid_map): towers A    *)
(* and B of the end-to-end scenarios.                                      *)
(***************************************************************************)
Registry == (ADDR_A :> "A") @@ (ADDR_B :> "B")

LinkState(ssid, bssid, signal_dbm) ==
    [ssid |-> ssid, bssid |-> bssid, signal_dbm |-> signal_dbm]

(***************************************************************************)
(* maybe_fill_current_from_link: the dict seen after the call.             *)
(***************************************************************************)
\* line 454 without the age test: any scan-sourced entry is kept
maybe_fill_keeps_any_scan(seen, current, freshness_ms, bmap) ==
    IF current = None THEN seen
    ELSE IF MapGet(bmap, current[1].bssid) # Some(current[1].ssid) THEN seen
    ELSE IF current[1].signal_dbm = None THEN seen
    ELSE LET existing == DictGet(seen, current[1].ssid) IN
         IF existing # None /\ existing[1].source = "scan" THEN seen
         ELSE DictSet(seen, current[1].ssid,
                      SeenTower(current[1].ssid, current[1].bssid,
                                current[1].signal_dbm[1], None, "link"))

\* line 457 on a fresh dict instead of seen
maybe_fill_rebuilds(seen, current, freshness_ms, bmap) ==
    IF current = None THEN seen
    ELSE IF MapGet(bmap, current[1].bssid) # Some(current[1].ssid) THEN seen
    ELSE IF current[1].signal_dbm = None THEN seen
    ELSE <<SeenTower(current[1].ssid, current[1].bssid,
                     current[1].signal_dbm[1], None, "link")>>

\* without the registry test of lines 447-448: any association is filled in
maybe_fill_from_any_link(seen, current, freshness_ms, bmap) ==
    IF current = None THEN seen
    ELSE IF current[1].signal_dbm = None THEN seen
    ELSE LET existing == DictGet(seen, current[1].ssid) IN
         IF /\ existing # None
            /\ existing[1].source = "scan"
            /\ existing[1].age_ms # None
            /\ existing[1].age_ms[1] <= freshness_ms
         THEN seen
         ELSE DictSet(seen, current[1].ssid,
                      SeenTower(current[1].ssid, current[1].bssid,
                                current[1].signal_dbm[1], None, "link"))

maybe_fill_current_from_link(seen, current, freshness_ms, bmap) ==
    IF current = None THEN seen
    ELSE IF MapGet(bmap, current[1].bssid) # Some(current[1].ssid) THEN seen
    ELSE IF current[1].signal_dbm = None THEN seen
    ELSE LET existing == DictGet(seen, current[1].ssid) IN
         IF /\ existing # None
            /\ existing[1].source = "scan"
            /\ existing[1].age_ms # None
            /\ existing[1].age_ms[1] <= freshness_ms
         THEN seen
         ELSE DictSet(seen, current[1].ssid,
                      SeenTower(current[1].ssid, current[1].bssid,
                                current[1].signal_dbm[1], None, "link"))

(***************************************************************************)
(* signal_to_led_count.  normalized is the fraction num / (hi - lo) after  *)
(* clamp01; int() truncates the non-negative product.  On whole dBm and    *)
(* the configurations below the exact quotient and the float one agree.    *)
(***************************************************************************)
signal_min_dbm == -90
signal_max_dbm == -20
pixels == 8

RuntimeConfig(lo, hi, px) == [signal_min_dbm |-> lo, signal_max_dbm |-> hi, pixels |-> px]

\* clamp01(x / den) as a numerator over den, den > 0
clamp01(x, den) == IF x < 0 THEN 0 ELSE IF x > den THEN den ELSE x

\* line 204 without the + 1
signal_to_led_count_from_zero(signal_dbm, cfg) ==
    IF signal_dbm = None THEN 1
    ELSE LET lo == cfg.signal_min_dbm
             hi == cfg.signal_max_dbm
         IN  IF hi <= lo THEN cfg.pixels
             ELSE (clamp01(signal_dbm[1] - lo, hi - lo) * (cfg.pixels - 1)) \div (hi - lo)

signal_to_led_count(signal_dbm, cfg) ==
    IF signal_dbm = None THEN 1
    ELSE LET lo == cfg.signal_min_dbm
             hi == cfg.signal_max_dbm
         IN  IF hi <= lo THEN cfg.pixels
             ELSE (clamp01(signal_dbm[1] - lo, hi - lo) * (cfg.pixels - 1)) \div (hi - lo) + 1

(***************************************************************************)
(* pick_best_non_current: the loop over seen.values(), in dict order.      *)
(***************************************************************************)
RECURSIVE PickLoop(_, _, _)
PickLoop(entries, current_ssid, best) ==
    IF entries = <<>> THEN best
    ELSE LET entry == Head(entries) IN
         IF current_ssid # None /\ entry.ssid = current_ssid[1]
         THEN PickLoop(Tail(entries), current_ssid, best)
         ELSE IF best = None \/ entry.signal_dbm > best[1].signal_dbm
         THEN PickLoop(Tail(entries), current_ssid, Some(entry))
         ELSE PickLoop(Tail(entries), current_ssid, best)

pick_best_any(seen, current_ssid) == PickLoop(seen, None, None)

pick_best_non_current(seen, current_ssid) == PickLoop(seen, current_ssid, None)

(***************************************************************************)
(* IwClient: every call runs the tool; subprocess.run returns an exit code *)
(* or raises TimeoutExpired or FileNotFoundError.                          *)
(***************************************************************************)
TimeoutExpired == "TimeoutExpired"
CalledProcessError == "CalledProcessError"
FileNotFoundError == "FileNotFoundError"

\* outcomes of one subprocess.run(check=False): exit code 0, non-zero, or raised
RunOutcomes == {"exit0", "exit1", TimeoutExpired, FileNotFoundError}

Call(op, ssid, bssid, res, execs) ==
    [op |-> op, ssid |-> ssid, bssid |-> bssid, res |-> res, execs |-> execs]

\* "if bssid:" (lines 154, 166): None and the empty string are no address
Truthy(bssid) == bssid # None /\ bssid[1] # ""

\* lines 166-174 without the test of line 164: the identity-only command is
\* run after the first one whatever its exit code
connect_retries_after_success(ssid, bssid, o1, o2) ==
    LET first == IF Truthy(bssid) THEN bssid ELSE None
    IN  IF o1 \notin {"exit0", "exit1"} THEN Call("connect", ssid, bssid, o1, <<first>>)
        ELSE IF Truthy(bssid)
        THEN Call("connect", ssid, bssid,
                  IF o1 = "exit0" \/ o2 = "exit0" THEN "True"
                  ELSE IF o2 = "exit1" THEN "False" ELSE o2,
                  <<first, None>>)
        ELSE Call("connect", ssid, bssid, IF o1 = "exit0" THEN "True" ELSE "False",
                  <<first>>)

\* IwClient.connect(ssid, bssid) when the tool answers o1 and then o2: the
\* command lines run (the address of each, None for identity-only) and the
\* value returned ("True"/"False") or the exception raised
connect(ssid, bssid, o1, o2) ==
    LET first == IF Truthy(bssid) THEN bssid ELSE None
    IN  IF o1 = "exit0" THEN Call("connect", ssid, bssid, "True", <<first>>)
        ELSE IF o1 # "exit1" THEN Call("connect", ssid, bssid, o1, <<first>>)
        ELSE IF Truthy(bssid)
        THEN Call("connect", ssid, bssid,
                  IF o2 = "exit0" THEN "True" ELSE IF o2 = "exit1" THEN "False" ELSE o2,
                  <<first, None>>)
        ELSE Call("connect", ssid, bssid, "False", <<first>>)

\* the distinct behaviours of one connect call with an address
ConnectCalls(ssid, bssid) ==
    {connect(ssid, bssid, o1, o2) : o1 \in RunOutcomes, o2 \in RunOutcomes}

\* IwClient.disconnect(): check=False, the exit code is ignored
DisconnectCalls ==
    {Call("disconnect", "", None, r, <<>>) : r \in {"ok", TimeoutExpired, FileNotFoundError}}

Raised(call) == call.res \in {TimeoutExpired, CalledProcessError, FileNotFoundError, ValueError}

(***************************************************************************)
(* What the tool can answer inside the daemon.                             *)
(***************************************************************************)
\* IwClient.link(): the LinkState parsed, None, or the exception raised
LinkValues ==
    {None} \cup
    {Some(LinkState(id[1], id[2], sig)) :
        id \in {<<"A", ADDR_A>>, <<"B", ADDR_B>>, <<"X", ADDR_X>>,
                <<"A", ADDR_X>>, <<"B", ADDR_A>>},
        sig \in {None, Some(-70), Some(-65)}}
LinkResults ==
    {[res |-> "ok", value |-> v] : v \in LinkValues} \cup
    {[res |-> e, value |-> None] :
        e \in {TimeoutExpired, CalledProcessError, FileNotFoundError, ValueError}}

\* the lines of one block of a scan text: the header, then signal and age
BlockText(addr, signal, age) ==
    <<BssLine(addr)>>
      \o (IF signal = None THEN <<>> ELSE <<SignalLine(signal[1])>>)
      \o (IF age = None THEN <<>> ELSE <<AgeLine(age[1])>>)
ScanBlocks ==
    {<<>>} \cup
    {BlockText(a, Some(s), Some(g)) :
        a \in {ADDR_A, ADDR_B}, s \in DOMAIN FloatTable, g \in DOMAIN IntTable} \cup
    {BlockText(a, None, Some("500")) : a \in {ADDR_A, ADDR_B}} \cup
    {BlockText(ADDR_X, Some("-65.00"), Some("500")), BlockText(ADDR_A, Some("-"), None)}
\* IwClient.scan(): text of up to two blocks, or the exception raised
ScanResults ==
    {[res |-> "ok", text |-> b1 \o b2] : b1 \in ScanBlocks, b2 \in ScanBlocks} \cup
    {[res |-> e, text |-> <<>>] :
        e \in {TimeoutExpired, CalledProcessError, FileNotFoundError}}

\* the answers followed through the daemon loop: unassociated, on tower A,
\* on an unmanaged network; nothing seen, A alone, A with a weaker or a
\* stronger B
DaemonLinkResults ==
    {[res |-> "ok", value |-> v] :
        v \in {None, Some(LinkState("A", ADDR_A, Some(-70))),
               Some(LinkState("X", ADDR_X, None))}} \cup
    {[res |-> e, value |-> None] : e \in {TimeoutExpired, FileNotFoundError}}
DaemonScanResults ==
    {[res |-> "ok", text |-> b1 \o b2] :
        b1 \in {<<>>, BlockText(ADDR_A, Some("-70.00"), Some("500"))},
        b2 \in {<<>>, BlockText(ADDR_B, Some("-72.00"), Some("500")),
                BlockText(ADDR_B, Some("-65.00"), Some("500"))}} \cup
    {[res |-> e, text |-> <<>>] : e \in {CalledProcessError, FileNotFoundError}} \cup
    {[res |-> "ok", text |-> BlockText(ADDR_A, Some("-"), None)]}

(***************************************************************************)
(* maybe_roam.  A run is one execution: the locals current and seen (seen  *)
(* is meaningful once observed), the IwClient calls made in order, and the *)
(* value returned (ret) or the exception that left the function (exc).     *)
(***************************************************************************)
Run(current, seen, observed, cmds, ret, exc) ==
    [current |-> current, seen |-> seen, observed |-> observed,
     cmds |-> cmds, ret |-> ret, exc |-> exc]

Last(s) == s[Len(s)]

\* lines 528-532: what the bootstrap path returns after the connect answered k
BootstrapReturn_never_advances(k, now_monotonic, last_roam_time) == last_roam_time

BootstrapReturn_resets(k, now_monotonic, last_roam_time) ==
    IF k.res = "True" THEN now_monotonic ELSE 0

BootstrapReturn(k, now_monotonic, last_roam_time) ==
    IF k.res = "True" THEN now_monotonic ELSE last_roam_time

\* lines 522-526: the disconnect of the bootstrap path
BootstrapDisconnects_always(current) == DisconnectCalls

BootstrapDisconnects(current) == IF current # None THEN DisconnectCalls ELSE {}

\* lines 521-532: not on a managed tower
BootstrapRuns(current, seen, best, cmds, now_monotonic, last_roam_time) ==
    LET after_disconnect ==
            IF BootstrapDisconnects(current) # {}
            THEN {Append(cmds, d) : d \in BootstrapDisconnects(current)}
            ELSE {cmds}
    IN  UNION {
          IF Raised(Last(c)) THEN {Run(current, seen, TRUE, c, None, Last(c).res)}
          ELSE { IF Raised(k) THEN Run(current, seen, TRUE, Append(c, k), None, k.res)
                 ELSE Run(current, seen, TRUE, Append(c, k),
                          Some(BootstrapReturn(k, now_monotonic, last_roam_time)), "")
               : k \in ConnectCalls(best.ssid, Some(best.bssid)) }
          : c \in after_disconnect }

\* line 539: the hysteresis test
ShouldRoam_at_margin(best, current, cur_seen, margin) ==
    best.ssid # current.ssid /\ best.signal_dbm >= cur_seen.signal_dbm + margin

ShouldRoam(best, current, cur_seen, margin) ==
    best.ssid # current.ssid /\ best.signal_dbm > cur_seen.signal_dbm + margin

\* lines 551-558: what the roam path returns after the connect answered k
RoamReturn_always_advances(k, now_monotonic, last_roam_time) == now_monotonic

RoamReturn(k, now_monotonic, last_roam_time) ==
    IF k.res = "True" THEN now_monotonic ELSE last_roam_time

\* line 556: the recovery reconnect
RecoveryCalls_to_candidate(current, best) == ConnectCalls(best.ssid, Some(best.bssid))

RecoveryCalls(current, best) == ConnectCalls(current.ssid, Some(current.bssid))

\* lines 539-558: on a managed tower whose observation is cur_seen
RoamRuns(current, seen, best, cur_seen, cmds, margin, now_monotonic, last_roam_time) ==
    IF ShouldRoam(best, current[1], cur_seen, margin)
    THEN UNION {
          LET c == Append(cmds, d) IN
          IF Raised(d) THEN {Run(current, seen, TRUE, c, None, d.res)}
          ELSE UNION {
                 LET ck == Append(c, k)
                     ret == Some(RoamReturn(k, now_monotonic, last_roam_time))
                 IN  IF k.res = "True" THEN {Run(current, seen, TRUE, ck, ret, "")}
                     ELSE IF Raised(k) THEN {Run(current, seen, TRUE, ck, None, k.res)}
                     ELSE { IF Raised(r)
                            THEN Run(current, seen, TRUE, Append(ck, r), None, r.res)
                            ELSE Run(current, seen, TRUE, Append(ck, r), ret, "")
                          : r \in RecoveryCalls(current[1], best) }
               : k \in ConnectCalls(best.ssid, Some(best.bssid)) }
          : d \in DisconnectCalls }
    ELSE {Run(current, seen, TRUE, cmds, Some(last_roam_time), "")}

\* lines 535-537 taken for the unassociated case: connect to the strongest
DecideRuns_without_own(current, seen, cmds, margin, bmap, now_monotonic, last_roam_time) ==
    LET current_managed ==
            current # None /\ MapGet(bmap, current[1].bssid) = Some(current[1].ssid)
        best == pick_best_non_current(seen,
                    IF current_managed THEN Some(current[1].ssid) ELSE None)
        stay == {Run(current, seen, TRUE, cmds, Some(last_roam_time), "")}
    IN  IF seen = <<>> THEN stay
        ELSE IF best = None THEN stay
        ELSE IF ~current_managed \/ DictGet(seen, current[1].ssid) = None
        THEN BootstrapRuns(current, seen, best[1], cmds, now_monotonic, last_roam_time)
        ELSE RoamRuns(current, seen, best[1], DictGet(seen, current[1].ssid)[1], cmds,
                      margin, now_monotonic, last_roam_time)

\* lines 510-537: the decision once current and the reconciled seen are known
DecideRuns(current, seen, cmds, margin, bmap, now_monotonic, last_roam_time) ==
    LET current_managed ==
            current # None /\ MapGet(bmap, current[1].bssid) = Some(current[1].ssid)
        best == pick_best_non_current(seen,
                    IF current_managed THEN Some(current[1].ssid) ELSE None)
        stay == {Run(current, seen, TRUE, cmds, Some(last_roam_time), "")}
    IN  IF seen = <<>> THEN stay
        ELSE IF best = None THEN stay
        ELSE IF ~current_managed
        THEN BootstrapRuns(current, seen, best[1], cmds, now_monotonic, last_roam_time)
        ELSE LET cur_seen == DictGet(seen, current[1].ssid) IN
             IF cur_seen = None THEN stay
             ELSE RoamRuns(current, seen, best[1], cur_seen[1], cmds, margin,
                           now_monotonic, last_roam_time)

maybe_roam_no_cooldown(links, scans, margin, bmap, now_monotonic, last_roam_time) ==
    UNION {
      LET c1 == <<Call("link", "", None, l.res, <<>>)>> IN
      IF l.res # "ok" THEN {Run(None, <<>>, FALSE, c1, None, l.res)}
      ELSE UNION {
             LET c2 == Append(c1, Call("scan", "", None, s.res, <<>>))
                 parsed == parse_scan_seen_towers(s.text, bmap)
             IN  IF s.res # "ok" THEN {Run(l.value, <<>>, FALSE, c2, None, s.res)}
                 ELSE IF parsed.exc # "" THEN {Run(l.value, <<>>, FALSE, c2, None, parsed.exc)}
                 ELSE DecideRuns(l.value,
                                 maybe_fill_current_from_link(parsed.seen, l.value,
                                                              scan_freshness_ms, bmap),
                                 c2, margin, bmap, now_monotonic, last_roam_time)
             : s \in scans }
      : l \in links }

\* line 503
InCooldown_scan_interval(now_monotonic, last_roam_time) ==
    now_monotonic - last_roam_time < scan_interval_sec

\* lines 503-504 left out
InCooldown_never(now_monotonic, last_roam_time) == FALSE

InCooldown(now_monotonic, last_roam_time) ==
    now_monotonic - last_roam_time < roam_cooldown_sec

\* the runs of maybe_roam(iw, cfg, bssid_map, freqs, now_monotonic, last_roam_time)
\* when iw.link() answers from links and iw.scan() from scans
maybe_roam(links, scans, margin, bmap, now_monotonic, last_roam_time) ==
    IF InCooldown(now_monotonic, last_roam_time)
    THEN {Run(None, <<>>, FALSE, <<>>, Some(last_roam_time), "")}
    ELSE maybe_roam_no_cooldown(links, scans, margin, bmap, now_monotonic, last_roam_time)

(***************************************************************************)
(* run_daemon: the loop, on the scan cadence and the poll cadence.         *)
(***************************************************************************)
VARIABLES
    pc,                 \* where the loop is: "top", "scan", "poll", "stopped"
    clock,              \* time.monotonic()
    now,                \* the loop's local now
    last_scan,
    last_roam_time,
    scan_error_active,
    stop_event,
    exit_code,          \* run_daemon's return value, None while it runs
    roam_margin_db,     \* cfg.roam_margin_db
    call,               \* the maybe_roam run just made, None once the loop moved on
    prev_roam_time,     \* last_roam_time as that run was given it
    last_boot,          \* the latest connect from the unassociated state
    last_seen_connected,
    last_visual_key,
    link,               \* what the latest link poll read, None before the first
    visual_key,         \* the key the latest poll computed, None if it computed none
    render,             \* the LED call of the latest poll (None if it made none)
                        \* or of the exit
    logged,             \* the log lines of the latest scan+roam or poll step
    assoc_at,           \* now of the latest iteration that read an association,
                        \* the start of the daemon before any
    blinkt,             \* the LED strip: the library's pixel buffer and what is shown
    scan_exc,           \* how the latest scan+roam step ended: "" or the exception
    scan_output,        \* parser specification: the text
    bssid_map,          \* parser specification: the reverse index
    parsed,             \* parser specification: the result, None before
    args,               \* function specifications: the arguments of the call
    result              \* function specifications: the value returned, None before

daemon_vars == <<pc, clock, now, last_scan, last_roam_time, scan_error_active,
                 stop_event, exit_code, roam_margin_db, call, prev_roam_time, last_boot>>
indicator_vars == <<last_seen_connected, last_visual_key, link, visual_key, render,
                    logged, assoc_at, scan_exc, blinkt>>
parser_vars == <<scan_output, bssid_map, parsed>>
fn_vars == <<args, result>>

\* tower_gpio_indicator.py: the state of main
VARIABLES
    gpio_pc,            \* "idle", "loop" or "stopped"
    on_mask,            \* config.on_mask, one entry per pin
    devices,            \* per pin: is the output on, is the device closed
    last_connected,
    last_count,
    poll_error_active,
    gpio_stop,          \* stop_event of main
    gpio_exit,          \* None while running; the exit status and the exception, if any
    gpio_logged,        \* the lines the latest step logged, in order
    poll_res,           \* the answer of the latest station poll (None before it)
    rewrote,            \* the latest step called set_gpio_state
    at_close,           \* the outputs when the devices were closed
    polls               \* polls made so far

gpio_vars == <<gpio_pc, on_mask, devices, last_connected, last_count, poll_error_active,
               gpio_stop, gpio_exit, gpio_logged, poll_res, rewrote, at_close, polls>>

vars == <<daemon_vars, indicator_vars, parser_vars, fn_vars, gpio_vars>>

GpioIdle ==
    /\ gpio_pc = "idle" /\ on_mask = <<>> /\ devices = <<>>
    /\ last_connected = None /\ last_count = None /\ poll_error_active = FALSE
    /\ gpio_stop = FALSE /\ gpio_exit = None /\ gpio_logged = <<>>
    /\ poll_res = None /\ rewrote = FALSE /\ at_close = None /\ polls = 0

ParserIdle == scan_output = <<>> /\ bssid_map = Registry /\ parsed = None
FnIdle == args = None /\ result = None

\* the LED calls of the loop: what is lit (the tower whose color, how many pixels)
LedCall(fn, ssid, count) == [fn |-> fn, ssid |-> ssid, count |-> count]
led_clear == LedCall("led_clear", "", 0)
led_unknown == LedCall("led_unknown", "", IF unknown_mode = "dim_white" THEN pixels ELSE 0)
led_set_strength_color(ssid, signal_dbm) ==
    LedCall("led_set_strength_color", ssid,
            signal_to_led_count(signal_dbm,
                                RuntimeConfig(signal_min_dbm, signal_max_dbm, pixels)))

\* the blinkt library as the source uses it: clear() and set_pixel() write the
\* buffer, show() puts the buffer on the strip
Off == "off"
DimWhite == "dim_white"
ColorOf(ssid) == <<"color", ssid>>
AllOff == [i \in 1..pixels |-> Off]
blinkt_clear(b) == [b EXCEPT !.buf = AllOff]
\* set_pixel on pixels 0 .. n-1
blinkt_set_pixels(b, n, c) == [b EXCEPT !.buf = [i \in 1..pixels |-> IF i <= n THEN c ELSE b.buf[i]]]
blinkt_show(b) == [b EXCEPT !.shown = b.buf]

\* lines 232-234 without the clear of line 231
Paint_without_clear(b, n, c) == blinkt_show(blinkt_set_pixels(b, n, c))

\* lines 231-234 and 218-221: clear, set the leading pixels, show
Paint(b, n, c) == blinkt_show(blinkt_set_pixels(blinkt_clear(b), n, c))

\* what an LED call of the loop does to the strip (lines 207-235)
LedExec(led_call, b) ==
    IF led_call.fn = "led_clear" THEN blinkt_show(blinkt_clear(b))
    ELSE IF led_call.fn = "led_unknown"
    THEN IF unknown_mode = "dim_white" THEN Paint(b, pixels, DimWhite)
         ELSE blinkt_show(blinkt_clear(b))
    ELSE Paint(b, led_call.count, ColorOf(led_call.ssid))

\* the strip after line 619
BlinktCleared == [buf |-> AllOff, shown |-> AllOff]

\* lines 621-642; last_seen_connected is the clock at start
Init ==
    /\ pc = "top"
    /\ clock \in 0..MaxStart
    /\ now = 0
    /\ last_scan = 0
    /\ last_roam_time = 0
    /\ scan_error_active = FALSE
    /\ stop_event = FALSE
    /\ exit_code = None
    /\ roam_margin_db \in RoamMargins
    /\ call = None
    /\ prev_roam_time = 0
    /\ last_boot = None
    /\ last_seen_connected = clock
    /\ last_visual_key = None
    /\ link = None
    /\ visual_key = None
    /\ render = Some(led_clear)
    /\ blinkt = BlinktCleared
    /\ logged = {}
    /\ assoc_at = clock
    /\ scan_exc = ""
    /\ ParserIdle
    /\ FnIdle
    /\ GpioIdle

\* handle_signal
Signal ==
    /\ pc # "stopped"
    /\ ~stop_event
    /\ stop_event' = TRUE
    /\ UNCHANGED <<pc, clock, now, last_scan, last_roam_time, scan_error_active,
                   exit_code, roam_margin_db, call, prev_roam_time, last_boot>>
    /\ UNCHANGED indicator_vars
    /\ UNCHANGED parser_vars
    /\ UNCHANGED <<fn_vars, gpio_vars>>

\* an exit that leaves the strip as it is
Finally_without_clear ==
    /\ render' = render
    /\ blinkt' = blinkt
    /\ logged' = {"Stopped; LEDs cleared"}

\* lines 703-705: the finally block of every exit
Finally ==
    /\ render' = Some(led_clear)
    /\ blinkt' = LedExec(led_clear, blinkt)
    /\ logged' = {"Stopped; LEDs cleared"}

\* an iteration that goes to its link poll at once
IterationStart_at_poll == "poll"

\* the first statement of an iteration after now is read: the scan+roam
\* test of line 648, ahead of the link poll of line 665
IterationStart == "scan"

\* while not stop_event.is_set(): now = time.monotonic()
LoopTop ==
    /\ pc = "top"
    /\ IF stop_event
       THEN pc' = "stopped" /\ exit_code' = Some(0) /\ now' = now /\ Finally
       ELSE pc' = IterationStart /\ exit_code' = exit_code /\ now' = clock
            /\ UNCHANGED <<render, logged, blinkt>>
    /\ UNCHANGED <<clock, last_scan, last_roam_time, scan_error_active, stop_event,
                   roam_margin_db, call, prev_roam_time, last_boot>>
    /\ UNCHANGED <<last_seen_connected, last_visual_key, link, visual_key, assoc_at,
                   scan_exc>>
    /\ UNCHANGED parser_vars
    /\ UNCHANGED <<fn_vars, gpio_vars>>

\* the connect this run made from the unassociated state, if any
BootOf(run, at) ==
    IF /\ run.observed /\ run.current = None
       /\ \E i \in 1..Len(run.cmds) : run.cmds[i].op = "connect"
    THEN Some([at |-> at,
               ok |-> \E i \in 1..Len(run.cmds) :
                         run.cmds[i].op = "connect" /\ run.cmds[i].res = "True"])
    ELSE None

\* the lines maybe_roam logs in a run (lines 513-555), by their format
MaybeRoamLines ==
    {"SCAN saw no configured towers", "SCAN current", "Current network is unmanaged",
     "BOOTSTRAP connect", "Bootstrap connect failed", "ROAM", "Roam connect failed",
     "Attempting recovery reconnect"}
RunLog(run) ==
    IF ~run.observed THEN {}
    ELSE IF run.seen = <<>> THEN {"SCAN saw no configured towers"}
    ELSE LET managed == run.current # None
                        /\ MapGet(Registry, run.current[1].bssid) = Some(run.current[1].ssid)
             ops == [i \in 1..Len(run.cmds) |-> run.cmds[i].op]
             connects == {i \in 1..Len(run.cmds) : ops[i] = "connect"}
             first == IF connects = {} THEN 0
                      ELSE CHOOSE i \in connects : \A j \in connects : i <= j
         IN  {"SCAN current"}
             \cup (IF ~managed /\ run.current # None /\ Len(run.cmds) > 2
                   THEN {"Current network is unmanaged"} ELSE {})
             \cup (IF ~managed /\ first # 0 THEN {"BOOTSTRAP connect"} ELSE {})
             \cup (IF ~managed /\ first # 0 /\ run.cmds[first].res = "False"
                   THEN {"Bootstrap connect failed"} ELSE {})
             \cup (IF managed /\ Len(run.cmds) > 2 THEN {"ROAM"} ELSE {})
             \cup (IF managed /\ first # 0 /\ run.cmds[first].res = "False"
                   THEN {"Roam connect failed", "Attempting recovery reconnect"} ELSE {})

\* every exception but FileNotFoundError leaves the loop running
ScanStepExits_on_any_error(exc) == exc # ""

\* no exception ends the loop
ScanStepExits_never(exc) == FALSE

\* lines 652-654
ScanStepExits(exc) == exc = FileNotFoundError

\* a step that is due in every iteration
ScanDue_always(now_, last_scan_) == TRUE

\* line 648
ScanDue(now_, last_scan_) == now_ - last_scan_ >= scan_interval_sec

\* lines 648-661: the scan+roam step is due; iw.link() answers from links
\* and iw.scan() from scans
ScanRoamStep(links, scans) ==
    /\ pc = "scan"
    /\ ScanDue(now, last_scan)
    /\ \E run \in maybe_roam(links, scans, roam_margin_db, Registry, now, last_roam_time) :
         /\ call' = Some(run)
         /\ prev_roam_time' = last_roam_time
         /\ last_boot' = IF BootOf(run, now) # None THEN BootOf(run, now) ELSE last_boot
         /\ scan_exc' = run.exc
         /\ IF run.exc = ""
            THEN /\ last_roam_time' = run.ret[1]
                 /\ scan_error_active' = FALSE
                 /\ last_scan' = now
                 /\ pc' = "poll"
                 /\ exit_code' = exit_code
                 /\ render' = render
                 /\ blinkt' = blinkt
                 /\ logged' = RunLog(run)
            ELSE IF ScanStepExits(run.exc)
            THEN /\ pc' = "stopped"
                 /\ exit_code' = Some(1)
                 /\ Finally
                 /\ UNCHANGED <<last_roam_time, scan_error_active, last_scan>>
            ELSE /\ scan_error_active' =
                        IF run.exc \in {TimeoutExpired, CalledProcessError}
                        THEN TRUE ELSE scan_error_active
                 /\ logged' = RunLog(run) \cup
                        (IF run.exc \in {TimeoutExpired, CalledProcessError}
                         THEN IF scan_error_active THEN {}
                              ELSE {"Scan/roam step failed"}
                         ELSE {"Unexpected scan/roam error"})
                 /\ render' = render
                 /\ blinkt' = blinkt
                 /\ last_scan' = now
                 /\ pc' = "poll"
                 /\ UNCHANGED <<last_roam_time, exit_code>>
    /\ UNCHANGED <<clock, now, stop_event, roam_margin_db>>
    /\ UNCHANGED <<last_seen_connected, last_visual_key, link, visual_key, assoc_at>>
    /\ UNCHANGED parser_vars
    /\ UNCHANGED <<fn_vars, gpio_vars>>

\* line 648: the scan+roam step is not due
SkipScan ==
    /\ pc = "scan"
    /\ ~ScanDue(now, last_scan)
    /\ pc' = "poll"
    /\ UNCHANGED <<clock, now, last_scan, last_roam_time, scan_error_active, stop_event,
                   exit_code, roam_margin_db, call, prev_roam_time, last_boot>>
    /\ UNCHANGED indicator_vars
    /\ UNCHANGED parser_vars
    /\ UNCHANGED <<fn_vars, gpio_vars>>

\* the registry keyed by identity: towers.get(ssid) finds these
towers == {Registry[a] : a \in DOMAIN Registry}

\* lines 675, 686, 695: the visual keys
UnknownKey == <<"unknown", unknown_mode>>
UnknownSsidKey_without_identity(ssid) == <<"unknown_ssid">>
UnknownSsidKey(ssid) == <<"unknown_ssid", ssid>>
TowerKey(ssid, level) == <<"tower", ssid, level>>

\* line 674 with the grace of one poll interval
GraceElapsed_after_one_poll(now_, last_seen) == now_ - last_seen >= poll_interval_sec

\* line 674
GraceElapsed(now_, last_seen) == now_ - last_seen >= disconnect_grace_sec

\* every key is taken for a new one
KeyDiffers_always(key, last_key) == TRUE

\* lines 676, 687, 696: visual_key != last_visual_key
KeyDiffers(key, last_key) == Some(key) # last_key

\* lines 676-679, 687-690, 696-700: render under the key unless it is applied
Apply(key, led_call, line, warnings) ==
    /\ visual_key' = Some(key)
    /\ IF KeyDiffers(key, last_visual_key)
       THEN /\ render' = Some(led_call)
            /\ blinkt' = LedExec(led_call, blinkt)
            /\ logged' = warnings \cup {line}
            /\ last_visual_key' = Some(key)
       ELSE /\ render' = None
            /\ blinkt' = blinkt
            /\ logged' = warnings
            /\ last_visual_key' = last_visual_key

\* lines 673-700: the indicator step on the link just read
Indicator(lk, warnings) ==
    IF lk = None
    THEN /\ IF GraceElapsed(now, last_seen_connected)
            THEN Apply(UnknownKey, led_unknown, "Disconnected -> LED unknown", warnings)
            ELSE /\ visual_key' = None
                 /\ render' = None
                 /\ blinkt' = blinkt
                 /\ logged' = warnings
                 /\ last_visual_key' = last_visual_key
         /\ UNCHANGED <<last_seen_connected, assoc_at>>
    ELSE /\ last_seen_connected' = now
         /\ assoc_at' = now
         /\ IF lk[1].ssid \notin towers
            THEN Apply(UnknownSsidKey(lk[1].ssid), led_unknown,
                       "Connected to SSID not in config", warnings)
            ELSE Apply(TowerKey(lk[1].ssid,
                                signal_to_led_count(lk[1].signal_dbm,
                                    RuntimeConfig(signal_min_dbm, signal_max_dbm, pixels))),
                       led_set_strength_color(lk[1].ssid, lk[1].signal_dbm),
                       "Connected", warnings)

\* a wait that sleeps out the interval whatever the flag
StopEventWait_sleeps_always(is_set) == poll_interval_sec

\* lines 681, 692, 702: stop_event.wait(cfg.poll_interval_sec), the time it
\* takes; it returns at once when the flag is set
StopEventWait(is_set) == IF is_set THEN 0 ELSE poll_interval_sec

\* lines 663-702: the link poll, the indicator step, then
\* stop_event.wait(poll_interval_sec); iw.link() answers from links.
\* FileNotFoundError returns 1; the ValueError of a malformed signal field is
\* caught nowhere and ends the process with status 1; a timeout or a non-zero
\* exit is logged and reads as no link.  The clock is followed up to
\* MaxTime; the iteration in progress when the stop flag is set is followed
\* to its end.
PollStep(links) ==
    /\ pc = "poll"
    /\ clock <= MaxTime \/ stop_event
    /\ \E l \in links :
         /\ link' = Some(l)
         /\ IF l.res \in {FileNotFoundError, ValueError}
            THEN /\ pc' = "stopped" /\ exit_code' = Some(1) /\ clock' = clock
                 /\ Finally
                 /\ UNCHANGED <<last_seen_connected, last_visual_key, visual_key, assoc_at>>
            ELSE /\ Indicator(IF l.res = "ok" THEN l.value ELSE None,
                              IF l.res = "ok" THEN {} ELSE {"Link read failed"})
                 /\ pc' = "top"
                 /\ exit_code' = exit_code
                 /\ \E d \in 0..MaxDelay :
                      clock' = clock + d + StopEventWait(stop_event)
    /\ call' = None
    /\ UNCHANGED <<now, last_scan, last_roam_time, scan_error_active, stop_event,
                   roam_margin_db, prev_roam_time, last_boot, scan_exc>>
    /\ UNCHANGED parser_vars
    /\ UNCHANGED <<fn_vars, gpio_vars>>

\* what the link poll reads while the roam engine is followed: on tower A,
\* or the tool is gone
PollLinkResults ==
    {[res |-> "ok", value |-> Some(LinkState("A", ADDR_A, Some(-70)))],
     [res |-> FileNotFoundError, value |-> None]}

Next ==
    \/ Signal
    \/ LoopTop
    \/ ScanRoamStep(DaemonLinkResults, DaemonScanResults)
    \/ SkipScan
    \/ PollStep(PollLinkResults)

Spec == Init /\ [][Next]_vars

(***************************************************************************)
(* The daemon loop followed for its indicator: every kind of link the poll *)
(* can read, while the scan+roam step sees no association and no tower, or *)
(* fails.                                                                  *)
(***************************************************************************)
\* the poll reads: no association, tower A at two strengths, two networks
\* outside the registry, or iw.link() raises
DisplayLinkResults ==
    {[res |-> "ok", value |-> v] :
        v \in {None, Some(LinkState("A", ADDR_A, Some(-70))),
               Some(LinkState("A", ADDR_A, Some(-55))),
               Some(LinkState("A", ADDR_X, Some(-70))),
               Some(LinkState("X", ADDR_X, Some(-65))),
               Some(LinkState("Y", ADDR_C, None))}} \cup
    {[res |-> e, value |-> None] :
        e \in {TimeoutExpired, CalledProcessError, FileNotFoundError, ValueError}}
DisplayScanLinks ==
    {[res |-> "ok", value |-> None], [res |-> TimeoutExpired, value |-> None]}
DisplayScans ==
    {[res |-> "ok", text |-> <<>>], [res |-> CalledProcessError, text |-> <<>>],
     [res |-> "ok", text |-> BlockText(ADDR_A, Some("-"), None)]}

DisplayInit == Init /\ roam_margin_db = -2

DisplayNext ==
    \/ Signal
    \/ LoopTop
    \/ ScanRoamStep(DisplayScanLinks, DisplayScans)
    \/ SkipScan
    \/ PollStep(DisplayLinkResults)

SpecDisplay == DisplayInit /\ [][DisplayNext]_vars

\* the loop under the scheduling of sequential code: each statement is
\* reached and every call of the tool returns or raises, so the step the
\* loop is at is eventually taken
SpecDisplayFair ==
    /\ SpecDisplay
    /\ WF_vars(LoopTop)
    /\ WF_vars(ScanRoamStep(DisplayScanLinks, DisplayScans))
    /\ WF_vars(SkipScan)
    /\ WF_vars(PollStep(DisplayLinkResults))

(***************************************************************************)
(* One invocation of maybe_roam on every answer of the tool.               *)
(***************************************************************************)
\* latest now_monotonic an invocation is given
MaxNow == 5

LoopIdle ==
    /\ clock = 0 /\ last_scan = 0 /\ scan_error_active = FALSE /\ stop_event = FALSE
    /\ exit_code = None /\ prev_roam_time = 0 /\ last_boot = None
    /\ last_seen_connected = 0 /\ last_visual_key = None /\ link = None
    /\ visual_key = None /\ render = None /\ logged = {} /\ assoc_at = 0
    /\ scan_exc = "" /\ blinkt = BlinktCleared

DaemonIdle == LoopIdle /\ GpioIdle

RoamInit ==
    /\ pc = "invoke"
    /\ now \in 0..MaxNow
    /\ last_roam_time \in 0..now
    /\ roam_margin_db \in RoamMargins
    /\ call = None
    /\ DaemonIdle
    /\ ParserIdle
    /\ FnIdle

Invoke ==
    /\ pc = "invoke"
    /\ \E run \in maybe_roam(LinkResults, ScanResults, roam_margin_db, Registry,
                            now, last_roam_time) :
         call' = Some(run)
    /\ pc' = "returned"
    /\ UNCHANGED <<clock, now, last_scan, last_roam_time, scan_error_active, stop_event,
                   exit_code, roam_margin_db, prev_roam_time, last_boot>>
    /\ UNCHANGED parser_vars
    /\ UNCHANGED <<fn_vars, gpio_vars>>
    /\ UNCHANGED indicator_vars

RoamNext == Invoke

SpecRoam == RoamInit /\ [][RoamNext]_vars

(***************************************************************************)
(* parse_scan_seen_towers on every short scan text.                        *)
(***************************************************************************)
ScanLines ==
    {BssLine(ADDR_A), BssLine(ADDR_A_UPPER), BssLine(ADDR_B), BssLine(ADDR_C),
     SignalLine("-72.00"), SignalLine("-65.00"), SignalLine("-"),
     AgeLine("500"), Line(None, Some("-70.00"), Some("2000")), OtherLine,
     BssLine(ADDR_BAD), UnmatchedBssLine}
ScanTexts == UNION {[1..n -> ScanLines] : n \in 0..MaxScanLines}
\* reverse indexes load_tower_config can build: one address per tower, or
\* two addresses for tower A
RegistryMaps == {Registry, Registry @@ (ADDR_C :> "A")}

ScanInit ==
    /\ pc = "parse"
    /\ scan_output \in ScanTexts
    /\ bssid_map \in RegistryMaps
    /\ parsed = None
    /\ now = 0 /\ last_roam_time = 0 /\ roam_margin_db = -2 /\ call = None
    /\ DaemonIdle
    /\ FnIdle

ParseScan ==
    /\ pc = "parse"
    /\ parsed' = Some(parse_scan_seen_towers(scan_output, bssid_map))
    /\ pc' = "parsed"
    /\ UNCHANGED <<scan_output, bssid_map>>
    /\ UNCHANGED <<fn_vars, gpio_vars>>
    /\ UNCHANGED <<clock, now, last_scan, last_roam_time, scan_error_active, stop_event,
                   exit_code, roam_margin_db, call, prev_roam_time, last_boot>>
    /\ UNCHANGED indicator_vars

ScanNext == ParseScan

SpecScan == ScanInit /\ [][ScanNext]_vars

(***************************************************************************)
(* maybe_fill_current_from_link on every small map and link.               *)
(***************************************************************************)
\* ages around the freshness threshold, in ms
FillAges == {None, Some(500), Some(scan_freshness_ms), Some(2000)}
\* an observation of tower t: as the parser leaves it (scan-sourced, any
\* age), or as an earlier reconcile call left it (link-sourced, no age)
FillEntries(t, addr) ==
    {SeenTower(t, addr, sig, age, "scan") : sig \in {-72, -65}, age \in FillAges} \cup
    {SeenTower(t, addr, sig, None, "link") : sig \in {-72, -65}}
FillSeen ==
    {<<>>} \cup
    {<<e>> : e \in FillEntries("A", ADDR_A) \cup FillEntries("B", ADDR_B)} \cup
    {<<a, b>> : a \in FillEntries("A", ADDR_A), b \in FillEntries("B", ADDR_B)} \cup
    {<<b, a>> : a \in FillEntries("A", ADDR_A), b \in FillEntries("B", ADDR_B)}

FillInit ==
    /\ pc = "fill"
    /\ args \in {[seen |-> sn, current |-> c, freshness_ms |-> f] :
                    sn \in FillSeen, c \in LinkValues, f \in {0, scan_freshness_ms}}
    /\ result = None
    /\ now = 0 /\ last_roam_time = 0 /\ roam_margin_db = -2 /\ call = None
    /\ DaemonIdle
    /\ ParserIdle

Fill ==
    /\ pc = "fill"
    /\ result' = Some(maybe_fill_current_from_link(args.seen, args.current,
                                                   args.freshness_ms, Registry))
    /\ pc' = "filled"
    /\ UNCHANGED <<args, gpio_vars>>
    /\ UNCHANGED <<clock, now, last_scan, last_roam_time, scan_error_active, stop_event,
                   exit_code, roam_margin_db, call, prev_roam_time, last_boot>>
    /\ UNCHANGED parser_vars
    /\ UNCHANGED indicator_vars

FillNext == Fill

SpecFill == FillInit /\ [][FillNext]_vars

(***************************************************************************)
(* load_tower_config: the loop over the items of the JSON object.  An item *)
(* is its key, its bssid text and whether its color and freq validate.     *)
(***************************************************************************)
\* most items of a tower config the specification loads
MaxRawEntries == 2

\* str.strip() on the keys and bssid texts of the model
strip(s) == IF s \in {" A", "A "} THEN "A" ELSE s

Tower(ssid, bssid) == [ssid |-> ssid, bssid |-> bssid]

\* one turn of the loop, lines 351-380
LoadItem(st, item) ==
    IF strip(item.key) = "" THEN st
    ELSE IF ~item.valid THEN st
    ELSE LET bssid_norm == lower(strip(item.bssid)) IN
         IF ~IsBssid(bssid_norm) THEN st
         ELSE LET tower == Tower(strip(item.key), bssid_norm) IN
              [towers |-> DictSet(st.towers, tower.ssid, tower),
               bssid_map |-> (bssid_norm :> tower.ssid) @@ st.bssid_map]

RECURSIVE LoadItems(_, _)
LoadItems(st, items) ==
    IF items = <<>> THEN st
    ELSE LoadItems(LoadItem(st, Head(items)), Tail(items))

\* the registry and the reverse index returned, or the ValueError of line 383
load_tower_config(raw) ==
    LET st == LoadItems([towers |-> <<>>, bssid_map |-> <<>>], raw) IN
    IF st.towers = <<>>
    THEN [exc |-> ValueError, towers |-> <<>>, bssid_map |-> <<>>]
    ELSE [exc |-> "", towers |-> st.towers, bssid_map |-> st.bssid_map]

RawKeys == {"A", " A", "B", ""}
RawItems ==
    {[key |-> k, bssid |-> b, valid |-> v] :
        k \in RawKeys, b \in {ADDR_A, ADDR_A_UPPER, ADDR_B, ADDR_BAD}, v \in BOOLEAN}
\* json.loads gives a dict: the keys of its items are distinct
RawConfigs ==
    {raw \in UNION {[1..n -> RawItems] : n \in 0..MaxRawEntries} :
        \A i, j \in 1..Len(raw) : raw[i].key = raw[j].key => i = j}

LoadInit ==
    /\ pc = "load"
    /\ args \in RawConfigs
    /\ result = None
    /\ now = 0 /\ last_roam_time = 0 /\ roam_margin_db = -2 /\ call = None
    /\ DaemonIdle
    /\ ParserIdle

Load ==
    /\ pc = "load"
    /\ result' = Some(load_tower_config(args))
    /\ pc' = "loaded"
    /\ UNCHANGED <<args, gpio_vars>>
    /\ UNCHANGED <<clock, now, last_scan, last_roam_time, scan_error_active, stop_event,
                   exit_code, roam_margin_db, call, prev_roam_time, last_boot>>
    /\ UNCHANGED parser_vars
    /\ UNCHANGED indicator_vars

LoadNext == Load

SpecLoad == LoadInit /\ [][LoadNext]_vars

(***************************************************************************)
(* signal_to_led_count on every whole signal around the configured range.  *)
(***************************************************************************)
\* signals from below every signal_min_dbm to above every signal_max_dbm
LevelSignals == {None} \cup {Some(x) : x \in (signal_min_dbm - 5)..(signal_max_dbm + 5)}
\* configurations load_runtime_config accepts (signal_max_dbm > signal_min_dbm,
\* pixels a positive integer): the default range and a narrow one
LevelConfigs ==
    {RuntimeConfig(r[1], r[2], px) :
        r \in {<<signal_min_dbm, signal_max_dbm>>, <<-70, -60>>, <<-50, -49>>},
        px \in {1, 2, pixels}}

LevelInit ==
    /\ pc = "level"
    /\ args \in {[signal_dbm |-> x, cfg |-> c] : x \in LevelSignals, c \in LevelConfigs}
    /\ result = None
    /\ now = 0 /\ last_roam_time = 0 /\ roam_margin_db = -2 /\ call = None
    /\ DaemonIdle
    /\ ParserIdle

Level ==
    /\ pc = "level"
    /\ result' = Some(signal_to_led_count(args.signal_dbm, args.cfg))
    /\ pc' = "levelled"
    /\ UNCHANGED <<args, gpio_vars>>
    /\ UNCHANGED <<clock, now, last_scan, last_roam_time, scan_error_active, stop_event,
                   exit_code, roam_margin_db, call, prev_roam_time, last_boot>>
    /\ UNCHANGED parser_vars
    /\ UNCHANGED indicator_vars

LevelNext == Level

SpecLevel == LevelInit /\ [][LevelNext]_vars

(***************************************************************************)
(* Properties of maybe_roam.  They read the run of the invocation from     *)
(* call and state what the decision must be from current and seen alone.   *)
(***************************************************************************)
TheRun == call[1]
Returned(run) == run.exc = ""
IsManaged(current) ==
    current # None /\ current[1].bssid \in DOMAIN Registry
                   /\ Registry[current[1].bssid] = current[1].ssid
\* the entries of seen for towers other than t
Others(seen, t) == {seen[i] : i \in {j \in 1..Len(seen) : seen[j].ssid # t}}
Entries(seen) == {seen[i] : i \in 1..Len(seen)}
Strongest(entries) == {e \in entries : \A o \in entries : o.signal_dbm <= e.signal_dbm}
\* the reconciled observation of the current tower, as a set of at most one entry
OwnEntry(run) == {e \in Entries(run.seen) : e.ssid = run.current[1].ssid}
Ops(run, op) == {i \in 1..Len(run.cmds) : run.cmds[i].op = op}
NoSwitch(run) == Ops(run, "disconnect") = {} /\ Ops(run, "connect") = {}
ConnectsTo(c, e) == c.op = "connect" /\ c.ssid = e.ssid /\ c.bssid = Some(e.bssid)

\* C1: invoked with now - last_roam_time < roam_cooldown_sec, maybe_roam issues
\* no link, scan, disconnect or connect and returns last_roam_time unchanged.
C1_CooldownSkipsEverything ==
    (call # None /\ now - last_roam_time < roam_cooldown_sec)
        => /\ TheRun.cmds = <<>>
           /\ TheRun.ret = Some(last_roam_time)
           /\ Returned(TheRun)

C1_Witness ==
    /\ call # None
    /\ last_roam_time = 1 /\ now = 4
    /\ TheRun.ret = Some(1)

\* C2: on a known tower whose reconciled signal plus roam_margin_db is at least
\* the signal of every other observed tower, maybe_roam issues neither
\* disconnect nor connect and returns last_roam_time unchanged.
C2_WithinMarginStays ==
    (/\ call # None /\ TheRun.observed /\ IsManaged(TheRun.current)
     /\ OwnEntry(TheRun) # {}
     /\ \A own \in OwnEntry(TheRun) :
          \A o \in Others(TheRun.seen, TheRun.current[1].ssid) :
             own.signal_dbm + roam_margin_db >= o.signal_dbm)
        => /\ NoSwitch(TheRun)
           /\ TheRun.ret = Some(last_roam_time)
           /\ Returned(TheRun)

\* the sticky case: another tower is strictly stronger, yet within the margin
C2_Witness ==
    /\ call # None /\ TheRun.observed /\ IsManaged(TheRun.current)
    /\ roam_margin_db = 5
    /\ \E own \in OwnEntry(TheRun) :
         /\ \E o \in Others(TheRun.seen, own.ssid) : o.signal_dbm = own.signal_dbm + 5
         /\ \A o \in Others(TheRun.seen, own.ssid) : o.signal_dbm <= own.signal_dbm + 5
    /\ NoSwitch(TheRun)
    /\ TheRun.ret = Some(last_roam_time)

\* C3: outside the cooldown, on a known tower with a reconciled observation,
\* when the strongest other observed tower is strictly stronger than the
\* current reconciled signal plus roam_margin_db, maybe_roam disconnects, then
\* (the disconnect having returned) connects to that candidate's identity and
\* address, never to the current tower, and on connect success returns now.
C3_BeyondMarginRoams ==
    (/\ call # None /\ TheRun.observed /\ IsManaged(TheRun.current)
     /\ \E own \in OwnEntry(TheRun) :
          \E o \in Others(TheRun.seen, own.ssid) :
             o.signal_dbm > own.signal_dbm + roam_margin_db)
        => /\ Len(TheRun.cmds) >= 3
           /\ TheRun.cmds[3].op = "disconnect"
           /\ ~Raised(TheRun.cmds[3]) =>
                /\ Len(TheRun.cmds) >= 4
                /\ \E e \in Strongest(Others(TheRun.seen, TheRun.current[1].ssid)) :
                     ConnectsTo(TheRun.cmds[4], e)
                /\ TheRun.cmds[4].ssid # TheRun.current[1].ssid
                /\ TheRun.cmds[4].res = "True" =>
                     /\ TheRun.ret = Some(now)
                     /\ Len(TheRun.cmds) = 4

\* a roam to a tower no stronger than the current one (negative margin), with a
\* fresh scan reading of the current tower
C3_Witness ==
    /\ call # None /\ TheRun.observed /\ IsManaged(TheRun.current)
    /\ roam_margin_db = -2
    /\ Len(TheRun.cmds) = 4
    /\ TheRun.cmds[4].res = "True"
    /\ TheRun.ret = Some(now) /\ now > last_roam_time
    /\ \E own \in OwnEntry(TheRun) :
         /\ own.source = "scan"
         /\ \E e \in Others(TheRun.seen, own.ssid) :
              ConnectsTo(TheRun.cmds[4], e) /\ e.signal_dbm = own.signal_dbm

\* C5: with no association, or one that is not a known tower, and at least one
\* known tower observed, maybe_roam targets the strongest observation over all
\* observed towers, disconnects first iff an association exists, and then
\* (the disconnect having returned) connects to the chosen tower.
C5_BootstrapTargetsStrongest ==
    (/\ call # None /\ TheRun.observed /\ ~IsManaged(TheRun.current)
     /\ TheRun.seen # <<>>)
        => LET first == IF TheRun.current = None THEN 3 ELSE 4 IN
           /\ (TheRun.current # None) <=> (Ops(TheRun, "disconnect") # {})
           /\ TheRun.current # None =>
                /\ Len(TheRun.cmds) >= 3
                /\ TheRun.cmds[3].op = "disconnect"
           /\ (TheRun.current = None \/ ~Raised(TheRun.cmds[3])) =>
                /\ Len(TheRun.cmds) = first
                /\ \E e \in Strongest(Entries(TheRun.seen)) :
                     ConnectsTo(TheRun.cmds[first], e)

\* drifted onto an unmanaged network that reports a known identity: the
\* strongest tower, and the one connected to, is that very identity
C5_Witness ==
    /\ call # None /\ TheRun.observed
    /\ TheRun.current # None /\ ~IsManaged(TheRun.current)
    /\ Len(TheRun.cmds) = 4
    /\ TheRun.cmds[3].op = "disconnect"
    /\ TheRun.cmds[4].op = "connect"
    /\ TheRun.cmds[4].ssid = TheRun.current[1].ssid
    /\ Len(TheRun.seen) = 2

\* the connect to the chosen tower: the first connect of the run
FirstConnect(run) == run.cmds[CHOOSE i \in Ops(run, "connect") :
                                 \A j \in Ops(run, "connect") : i <= j]

\* C6: a failed connect never leaves last_roam_time advanced: in the bootstrap
\* and in the roam path, when the connect to the chosen tower does not succeed,
\* maybe_roam returns the last_roam_time it was given (also when the recovery
\* reconnect succeeds), or is left by an exception and returns nothing.
C6_FailedConnectKeepsTimer ==
    (/\ call # None /\ Ops(TheRun, "connect") # {}
     /\ FirstConnect(TheRun).res # "True")
        => /\ TheRun.ret \in {None, Some(last_roam_time)}
           /\ Returned(TheRun) => TheRun.ret = Some(last_roam_time)

\* the roam connect failed and the recovery reconnect succeeded
C6_Witness ==
    /\ call # None
    /\ Len(TheRun.cmds) = 5
    /\ TheRun.cmds[4].res = "False"
    /\ TheRun.cmds[5].res = "True"
    /\ TheRun.ret = Some(last_roam_time)
    /\ now > last_roam_time

(***************************************************************************)
(* Properties of the engine inside the daemon loop.                        *)
(***************************************************************************)
\* a scan+roam step of the loop in which maybe_roam calls connect
ConnectingStep ==
    /\ pc = "scan" /\ pc' # "scan"
    /\ call' # None
    /\ Ops(call'[1], "connect") # {}

\* unassociated with a known tower observed: one connect call in the run
C4_OneConnect ==
    (call # None /\ TheRun.observed /\ TheRun.current = None /\ TheRun.seen # <<>>)
        => Cardinality(Ops(TheRun, "connect")) = 1

\* C4 as stated: unassociated with a known tower observed, the engine calls
\* connect exactly once, and for every outcome of that connect it calls
\* connect in no invocation less than roam_cooldown_sec later.
C4_Original ==
    /\ []C4_OneConnect
    /\ [][(ConnectingStep /\ last_boot # None)
             => now - last_boot[1].at >= roam_cooldown_sec]_vars

\* C4 amended: the cooldown protects a connect that succeeded.
C4_ConnectOncePerCooldown ==
    /\ []C4_OneConnect
    /\ [][(ConnectingStep /\ last_boot # None /\ last_boot[1].ok)
             => now - last_boot[1].at >= roam_cooldown_sec]_vars

\* re-invoked inside the cooldown of a successful bootstrap: nothing is issued
C4_Witness ==
    /\ last_boot # None /\ last_boot[1].ok
    /\ pc = "poll" /\ call # None
    /\ now > last_boot[1].at
    /\ now - last_boot[1].at < roam_cooldown_sec
    /\ TheRun.cmds = <<>>

\* C7: during a roam, whenever the connect to the candidate fails, the engine
\* attempts a recovery reconnect to the previous tower's identity and address,
\* and the failure does not end the loop.
C7_RecoveryAfterFailedRoam ==
    (/\ call # None /\ TheRun.observed /\ IsManaged(TheRun.current)
     /\ Len(TheRun.cmds) >= 4
     /\ TheRun.cmds[4].op = "connect" /\ TheRun.cmds[4].res = "False")
        => /\ Len(TheRun.cmds) = 5
           /\ ConnectsTo(TheRun.cmds[5], TheRun.current[1])
           /\ TheRun.cmds[5].res # FileNotFoundError =>
                pc = "poll" /\ exit_code = None

\* the recovery reconnect fails too, and the loop goes on to its poll
C7_Witness ==
    /\ call # None /\ TheRun.observed /\ IsManaged(TheRun.current)
    /\ Len(TheRun.cmds) = 5
    /\ TheRun.cmds[4].res = "False"
    /\ TheRun.cmds[5].res = "False"
    /\ TheRun.cmds[5].ssid = "A" /\ TheRun.cmds[4].ssid = "B"
    /\ pc = "poll"

\* C8: over the iterations of the daemon loop last_roam_time never decreases:
\* a scan+roam step leaves it unchanged or sets it to a strictly later value,
\* and no other step changes it.
C8_RoamTimerMonotonic ==
    [][\/ last_roam_time' = last_roam_time
       \/ pc = "scan" /\ last_roam_time' > last_roam_time /\ last_roam_time' = now]_vars

\* the timer advanced a second time
C8_Witness ==
    /\ call # None
    /\ prev_roam_time > 0
    /\ last_roam_time > prev_roam_time

(***************************************************************************)
(* Properties of parse_scan_seen_towers, stated on the text: a block is a  *)
(* header line and the lines up to the next header.                        *)
(***************************************************************************)
Parsed == parsed[1]
Headers(text) == {i \in 1..Len(text) : text[i].bss # None}
BlockLines(text, i) ==
    {j \in (i + 1)..Len(text) : \A h \in Headers(text) : ~(i < h /\ h <= j)}
Latest(S) == CHOOSE j \in S : \A k \in S : k <= j
SignalLinesOf(text, i) == {j \in BlockLines(text, i) : text[j].signal # None}
AgeLinesOf(text, i) ==
    {j \in BlockLines(text, i) : text[j].signal = None /\ text[j].age # None}
HasSignal(text, i) == SignalLinesOf(text, i) # {}
BlockSignalText(text, i) == text[Latest(SignalLinesOf(text, i))].signal[1]
BlockAge(text, i) ==
    IF AgeLinesOf(text, i) = {} THEN None
    ELSE Some(IntTable[text[Latest(AgeLinesOf(text, i))].age[1]])
BlockAddress(text, i) == lower(text[i].bss[1])
\* the blocks of tower t that carry a signal line
BlocksOf(text, bmap, t) ==
    {i \in Headers(text) :
        /\ HasSignal(text, i)
        /\ BlockAddress(text, i) \in DOMAIN bmap
        /\ bmap[BlockAddress(text, i)] = t}
ObservationOf(text, bmap, t) ==
    LET blocks == BlocksOf(text, bmap, t)
        top == {i \in blocks : \A k \in blocks :
                   FloatTable[BlockSignalText(text, k)] <= FloatTable[BlockSignalText(text, i)]}
        first == CHOOSE i \in top : \A k \in top : i <= k
    IN  SeenTower(t, BlockAddress(text, first), FloatTable[BlockSignalText(text, first)],
                  BlockAge(text, first), "scan")
Towers(bmap) == {bmap[a] : a \in DOMAIN bmap}
IsObservationMap ==
    /\ Keys(Parsed.seen) = {t \in Towers(bssid_map) : BlocksOf(scan_output, bssid_map, t) # {}}
    /\ Cardinality(Keys(Parsed.seen)) = Len(Parsed.seen)
    /\ \A e \in Entries(Parsed.seen) : e = ObservationOf(scan_output, bssid_map, e.ssid)

\* C9: for any scan text parse_scan_seen_towers returns a map of exactly the
\* registry towers that have a block with a signal line, each with the maximum
\* signal among its blocks (first seen kept on ties), tagged scan; a block
\* without a signal line contributes nothing.
C9_Original ==
    parsed # None => (Parsed.exc = "" /\ IsObservationMap)

\* C9 on the texts whose signal fields are numbers: there the map is as claimed
C9_WellFormedNumbers ==
    (parsed # None /\ Parsed.exc = "") => IsObservationMap

\* C10: every entry parse_scan_seen_towers returns has an address that the
\* reverse index maps to the entry's ssid key; an address outside the reverse
\* index is in no entry, whatever the scan text.
C10_OnlyRegistryAddresses ==
    (parsed # None /\ Parsed.exc = "")
        => \A e \in Entries(Parsed.seen) :
              /\ e.bssid \in DOMAIN bssid_map
              /\ bssid_map[e.bssid] = e.ssid

\* a text with a signal-carrying block of an address outside the reverse index
\* next to one of a tower announced in upper case
C10_Witness ==
    /\ parsed # None /\ Parsed.exc = ""
    /\ \E i \in Headers(scan_output) :
         HasSignal(scan_output, i) /\ BlockAddress(scan_output, i) \notin DOMAIN bssid_map
    /\ \E i \in Headers(scan_output) :
         HasSignal(scan_output, i) /\ scan_output[i].bss[1] = ADDR_A_UPPER
    /\ Len(Parsed.seen) = 1

\* the lines that open a block in the tool's output, matched or not
AnnouncedHeaders(text) == {i \in 1..Len(text) : text[i].header}
MalformedHeader(text, i) ==
    text[i].header /\ (text[i].bss = None \/ ~IsBssid(lower(text[i].bss[1])))
\* the lines outside the block that header i opens
OutsideBlock(text, i) ==
    {j \in 1..Len(text) :
        j < i \/ \E h \in AnnouncedHeaders(text) : i < h /\ h <= j}
SubText(text, S) ==
    [k \in 1..Cardinality(S) |->
        text[CHOOSE j \in S : Cardinality({m \in S : m < j}) = k - 1]]
DroppedAsAWhole(text, i) ==
    parse_scan_seen_towers(SubText(text, OutsideBlock(text, i)), bssid_map) = Parsed

\* C11: a scan block whose header announces a malformed hardware address is
\* dropped as a whole: the map returned is the one returned for the text
\* without that block, so its signal and last-seen lines contribute to no
\* tower's observation, in particular not to that of the preceding block.
C11_Original ==
    (parsed # None /\ Parsed.exc = "")
        => \A i \in 1..Len(scan_output) :
              MalformedHeader(scan_output, i) => DroppedAsAWhole(scan_output, i)

\* C11 on the texts all of whose headers SCAN_BSS_RE matches: there a block
\* with a malformed address is dropped
C11_MatchedHeaderDropped ==
    (/\ parsed # None /\ Parsed.exc = ""
     /\ \A j \in AnnouncedHeaders(scan_output) : scan_output[j].bss # None)
        => \A i \in 1..Len(scan_output) :
              (MalformedHeader(scan_output, i) /\ scan_output[i].bss # None)
                 => DroppedAsAWhole(scan_output, i)

(***************************************************************************)
(* Properties of maybe_fill_current_from_link.                             *)
(***************************************************************************)
Filled == result[1]
\* the live link is to a known tower and carries a signal
LiveKnownLink ==
    /\ args.current # None
    /\ IsManaged(args.current)
    /\ args.current[1].signal_dbm # None
LinkEntry ==
    SeenTower(args.current[1].ssid, args.current[1].bssid,
              args.current[1].signal_dbm[1], None, "link")
\* a scan-sourced entry for the current tower with age_ms present and fresh
FreshScanEntry ==
    LET existing == DictGet(args.seen, args.current[1].ssid) IN
    /\ existing # None
    /\ existing[1].source = "scan"
    /\ existing[1].age_ms # None
    /\ existing[1].age_ms[1] <= args.freshness_ms

\* C12: when the live link is to a known tower and carries a signal, the
\* tower's observation after maybe_fill_current_from_link is the link-sourced
\* entry (link signal, age absent), unless a scan-sourced entry for it exists
\* with age_ms present and age_ms <= scan_freshness_ms, which is kept.
C12_LinkOverridesStaleScan ==
    (pc = "filled" /\ LiveKnownLink)
        => DictGet(Filled, args.current[1].ssid) =
              IF FreshScanEntry THEN DictGet(args.seen, args.current[1].ssid)
              ELSE Some(LinkEntry)

\* threshold 1500: age 2000 overridden
C12_Witness ==
    /\ pc = "filled" /\ LiveKnownLink
    /\ args.freshness_ms = 1500
    /\ args.current[1].ssid = "A"
    /\ DictGet(args.seen, "A") # None
    /\ DictGet(args.seen, "A")[1].source = "scan"
    /\ DictGet(args.seen, "A")[1].age_ms = Some(2000)
    /\ DictGet(Filled, "A") = Some(LinkEntry)

\* threshold 1500: age 500 kept
C12_WitnessKept ==
    /\ pc = "filled" /\ LiveKnownLink
    /\ args.freshness_ms = 1500
    /\ DictGet(args.seen, "A") # None
    /\ DictGet(args.seen, "A")[1].age_ms = Some(500)
    /\ args.current[1].ssid = "A"
    /\ DictGet(Filled, "A") = DictGet(args.seen, "A")
    /\ DictGet(Filled, "A") # Some(LinkEntry)

\* C13: the reconcile step leaves every observation other than the currently
\* associated tower's as it was (same entries, same order), and leaves the
\* whole map unchanged when there is no association, the association is not
\* a known tower, or the link carries no signal.
C13_OthersUntouched ==
    pc = "filled"
        => /\ ~LiveKnownLink => Filled = args.seen
           /\ LiveKnownLink =>
                /\ Others(Filled, args.current[1].ssid)
                       = Others(args.seen, args.current[1].ssid)
                /\ \A i \in 1..Len(args.seen) :
                       /\ i <= Len(Filled)
                       /\ Filled[i].ssid = args.seen[i].ssid
                /\ Len(Filled) <= Len(args.seen) + 1

\* the link entry was inserted next to another tower's observation
C13_Witness ==
    /\ pc = "filled" /\ LiveKnownLink
    /\ args.current[1].ssid = "A"
    /\ Len(args.seen) = 1 /\ args.seen[1].ssid = "B"
    /\ Len(Filled) = 2 /\ Filled[1] = args.seen[1] /\ Filled[2] = LinkEntry

\* an association that is not a known tower, on a non-empty map
C13_WitnessUnknown ==
    /\ pc = "filled" /\ args.current # None /\ ~IsManaged(args.current)
    /\ args.current[1].signal_dbm # None
    /\ args.current[1].ssid = "A"
    /\ Len(args.seen) = 2 /\ Filled = args.seen

(***************************************************************************)
(* Properties of load_tower_config.                                        *)
(***************************************************************************)
Loaded == result[1]

\* C14: after load_tower_config succeeds every Tower.bssid is unique within
\* the registry, the reverse index is injective from address to identity,
\* and for every tower t of the registry bssid_map[t.bssid] = t.ssid.
C14_Original ==
    (pc = "loaded" /\ Loaded.exc = "")
        => /\ \A i, j \in 1..Len(Loaded.towers) :
                 Loaded.towers[i].bssid = Loaded.towers[j].bssid => i = j
           /\ \A a, b \in DOMAIN Loaded.bssid_map :
                 Loaded.bssid_map[a] = Loaded.bssid_map[b] => a = b
           /\ \A t \in Entries(Loaded.towers) :
                 /\ t.bssid \in DOMAIN Loaded.bssid_map
                 /\ Loaded.bssid_map[t.bssid] = t.ssid

\* what does hold of the pair returned: every tower's address is in the
\* reverse index, and the index names towers of the registry only
C14_IndexCoversTowers ==
    (pc = "loaded" /\ Loaded.exc = "")
        => /\ \A t \in Entries(Loaded.towers) : t.bssid \in DOMAIN Loaded.bssid_map
           /\ \A a \in DOMAIN Loaded.bssid_map :
                 Loaded.bssid_map[a] \in Keys(Loaded.towers)

(***************************************************************************)
(* Properties of signal_to_led_count.                                      *)
(***************************************************************************)
\* C17: signal_to_led_count returns a level in 1..pixels, never 0: an absent
\* signal maps to 1, a signal at or below signal_min_dbm maps to 1, a signal
\* at or above signal_max_dbm maps to pixels, and a stronger signal never
\* maps to a lower level.
C17_LevelInRange ==
    pc = "levelled"
        => LET level == result[1]
               cfg == args.cfg
               x == args.signal_dbm
           IN  /\ level \in 1..cfg.pixels
               /\ x = None => level = 1
               /\ (x # None /\ x[1] <= cfg.signal_min_dbm) => level = 1
               /\ (x # None /\ x[1] >= cfg.signal_max_dbm) => level = cfg.pixels
               /\ x # None =>
                     \A y \in LevelSignals \ {None} :
                        y[1] >= x[1] => signal_to_led_count(y, cfg) >= level

\* a signal inside the default range at a level strictly between 1 and pixels
C17_Witness ==
    /\ pc = "levelled"
    /\ args.cfg = RuntimeConfig(signal_min_dbm, signal_max_dbm, pixels)
    /\ args.signal_dbm = Some(-55)
    /\ result = Some(4)

(***************************************************************************)
(* Properties of the indicator.  In a poll step the unprimed link,         *)
(* visual_key and render are those of the poll before it.                  *)
(***************************************************************************)
\* a poll step that reaches the indicator
IndicatorStep == pc = "poll" /\ pc' = "top"
\* the link the indicator is given: None when the read failed
LinkOf(l) == IF l[1].res = "ok" THEN l[1].value ELSE None
\* this indicator step follows one with the identical link state
SameLinkAgain == IndicatorStep /\ link # None /\ LinkOf(link') = LinkOf(link)
RenderLines ==
    {"Disconnected -> LED unknown", "Connected to SSID not in config", "Connected"}
RenderIffKeyDiffers ==
    IndicatorStep
        => /\ render' # None <=> (visual_key' # None /\ visual_key' # last_visual_key)
           /\ render' # None <=> logged' \cap RenderLines # {}
           /\ last_visual_key' = IF render' # None THEN visual_key' ELSE last_visual_key

\* C15 as stated: a render (and its log line) happens in an iteration if and
\* only if the computed key differs from the last applied key, and two
\* consecutive indicator steps with identical link state, the first of which
\* did not find its key applied already, make exactly one render call.
C15_Original ==
    [][/\ RenderIffKeyDiffers
       /\ (SameLinkAgain /\ (render # None \/ visual_key = None))
             => (render # None) # (render' # None)]_vars

\* C15 amended: the render happens if and only if a key was computed and
\* differs from the last applied key; of two consecutive indicator steps with
\* identical link state the second renders nothing once the first has computed
\* a key, so the two make exactly one render call when the first one rendered.
C15_RenderIffKeyChanged ==
    [][/\ RenderIffKeyDiffers
       /\ (SameLinkAgain /\ visual_key # None)
             => (render' = None /\ visual_key' = visual_key)
       /\ (SameLinkAgain /\ render # None) => render' = None]_vars

\* a step on tower A that found its key applied and rendered nothing
C15_Witness ==
    /\ pc = "top" /\ link # None /\ LinkOf(link) # None
    /\ LinkOf(link)[1].ssid = "A"
    /\ visual_key = Some(TowerKey("A", 3))
    /\ last_visual_key = visual_key
    /\ render = None

\* C16: when a link read yields no association the indicator switches to the
\* unknown display only if at least disconnect_grace_sec has elapsed since the
\* last iteration that observed an association (or since the start); while it
\* has not elapsed no hardware write occurs and the applied key is retained.
C16_UnknownOnlyAfterGrace ==
    [][(IndicatorStep /\ LinkOf(link') = None)
          => /\ (render' # None \/ last_visual_key' # last_visual_key)
                   => now - assoc_at >= disconnect_grace_sec
             /\ now - assoc_at >= disconnect_grace_sec
                   => last_visual_key' = Some(UnknownKey)
             /\ now - assoc_at < disconnect_grace_sec
                   => (render' = None /\ last_visual_key' = last_visual_key)
             /\ assoc_at' = assoc_at]_vars

\* association lost less than the grace ago: tower A's key is still applied
C16_Witness ==
    /\ pc = "top" /\ link # None /\ LinkOf(link) = None
    /\ now - assoc_at < disconnect_grace_sec
    /\ render = None
    /\ last_visual_key = Some(TowerKey("A", 3))

\* association lost for the grace: the display went from tower A to unknown
C16_WitnessElapsed ==
    /\ pc = "top" /\ link # None /\ LinkOf(link) = None
    /\ assoc_at > MaxStart
    /\ now - assoc_at >= disconnect_grace_sec
    /\ render = Some(led_unknown)
    /\ last_visual_key = Some(UnknownKey)

\* the link read is an association to an identity outside the registry
OnUnknownIdentity(l) == l # None /\ LinkOf(l) # None /\ LinkOf(l)[1].ssid \notin towers

\* C18: associated to an identity unknown to the registry the indicator shows
\* unknown under a key that includes the identity: staying on the same unknown
\* identity renders nothing further, moving to a different unknown identity
\* renders exactly once.
C18_UnknownIdentityKey ==
    [][(IndicatorStep /\ OnUnknownIdentity(link'))
          => /\ last_visual_key' = Some(<<"unknown_ssid", LinkOf(link')[1].ssid>>)
             /\ render' \in {None, Some(led_unknown)}
             /\ (OnUnknownIdentity(link) /\ LinkOf(link)[1].ssid = LinkOf(link')[1].ssid)
                   => render' = None
             /\ (OnUnknownIdentity(link) /\ LinkOf(link)[1].ssid # LinkOf(link')[1].ssid)
                   => render' = Some(led_unknown)]_vars

\* on the unknown identity Y, rendered by this step
C18_Witness ==
    /\ pc = "top" /\ OnUnknownIdentity(link)
    /\ LinkOf(link)[1].ssid = "Y"
    /\ render = Some(led_unknown)
    /\ last_visual_key = Some(<<"unknown_ssid", "Y">>)

\* on the unknown identity Y, already applied
C18_WitnessStaying ==
    /\ pc = "top" /\ OnUnknownIdentity(link)
    /\ LinkOf(link)[1].ssid = "Y"
    /\ render = None
    /\ last_visual_key = Some(<<"unknown_ssid", "Y">>)

(***************************************************************************)
(* Properties of the loop's error handling.                                *)
(***************************************************************************)
TransportErrors == {TimeoutExpired, CalledProcessError}
\* the scan+roam step just made was left by a transport error of its link
\* or scan command
LinkOrScanFailed ==
    /\ call # None
    /\ TheRun.exc \in TransportErrors
    /\ Last(TheRun.cmds).op \in {"link", "scan"}

\* C19: a timeout or non-zero exit of the link or scan command during the
\* scan+roam step does not end the loop and is a stay for that cycle: no
\* disconnect or connect is issued, last_roam_time is unchanged, and the loop
\* goes on to the indicator poll.
C19_TransportErrorIsStay ==
    LinkOrScanFailed
        => /\ pc = "poll"
           /\ exit_code = None
           /\ Ops(TheRun, "connect") = {} /\ Ops(TheRun, "disconnect") = {}
           /\ last_roam_time = prev_roam_time
           /\ last_scan = now

\* the scan command failed after an earlier roam had advanced the timer
C19_Witness ==
    /\ LinkOrScanFailed
    /\ Last(TheRun.cmds).op = "scan"
    /\ prev_roam_time > 0
    /\ pc = "poll"

\* the scan+roam step that is being made (SkipScan makes no call)
ScanStepMade == pc = "scan" /\ call' # None
ScanWarnsOnce ==
    (ScanStepMade /\ scan_exc \in TransportErrors /\ scan_exc' \in TransportErrors)
        => "Scan/roam step failed" \notin logged'
PollWarnsOnce ==
    (IndicatorStep /\ link # None /\ link[1].res \in TransportErrors
                   /\ link'[1].res \in TransportErrors)
        => "Link read failed" \notin logged'

\* C20: transport errors of the scan+roam step and of the link poll are logged
\* once per failure onset: a step that fails right after a failure of the same
\* step emits no warning, so a run of consecutive failing cycles has at most
\* one warning for each of the two steps.
C20_Original ==
    [][ScanWarnsOnce /\ PollWarnsOnce]_vars

\* C20 for the scan+roam step alone: there the warning is not repeated
C20_ScanStepWarnsOnce ==
    [][ScanWarnsOnce]_vars

\* a scan+roam step that failed right after a failed one and logged nothing
C20_ScanStepWitness ==
    /\ pc = "poll" /\ call # None
    /\ TheRun.exc \in TransportErrors
    /\ scan_error_active
    /\ logged = {}

\* C21: when the transport error condition clears (a scan+roam step returns
\* after one or more failing steps) a recovery message is logged for that
\* transition: the step logs a line that is none of maybe_roam's own lines.
C21_Original ==
    [][(ScanStepMade /\ scan_exc \in TransportErrors /\ scan_exc' = "")
          => \E line \in logged' : line \notin MaybeRoamLines]_vars

\* what the code does on that transition: it clears scan_error_active and the
\* loop itself logs nothing
C21_FlagClearedSilently ==
    [][(ScanStepMade /\ scan_exc \in TransportErrors /\ scan_exc' = "")
          => (~scan_error_active' /\ logged' \subseteq MaybeRoamLines)]_vars

\* the tool was missing in the scan+roam step just made or in the link poll
ToolMissing ==
    \/ call # None /\ \E i \in 1..Len(TheRun.cmds) : TheRun.cmds[i].res = FileNotFoundError
    \/ link # None /\ link[1].res = FileNotFoundError

\* C22: if the wireless tool is missing (FileNotFoundError raised by any link,
\* scan, disconnect or connect call of the loop) the loop aborts without
\* retrying: the failed call is the last command issued, the daemon has
\* returned with exit code 1, and it takes no further step.
C22_ToolMissingIsFatal ==
    /\ [](ToolMissing => (pc = "stopped" /\ exit_code = Some(1)))
    /\ [](call # None =>
             \A i \in 1..Len(TheRun.cmds) :
                TheRun.cmds[i].res = FileNotFoundError
                   => i = Len(TheRun.cmds))
    /\ [][pc # "stopped"]_vars

\* the tool went missing at the connect of a roam, after link, scan and
\* disconnect had run
C22_Witness ==
    /\ call # None /\ Len(TheRun.cmds) = 4
    /\ TheRun.cmds[4].op = "connect" /\ TheRun.cmds[4].res = FileNotFoundError
    /\ pc = "stopped" /\ exit_code = Some(1)

(***************************************************************************)
(* Properties of the loop's exits.                                         *)
(***************************************************************************)
\* C23: on every exit path of the loop (stop signal, tool-not-found return,
\* unexpected exception) the indicator is cleared, and the clear is the last
\* hardware action: once the daemon has stopped the latest LED call is
\* led_clear and no step changes that.
C23_ClearedOnEveryExit ==
    /\ [](pc = "stopped" => render = Some(led_clear))
    /\ [][pc' = "stopped" => (render' = Some(led_clear)
                                /\ "Stopped; LEDs cleared" \in logged')]_vars
    /\ [][pc # "stopped"]_vars

\* left by the unexpected exception of a link read while tower A was shown
C23_Witness ==
    /\ pc = "stopped" /\ exit_code = Some(1)
    /\ link # None /\ link[1].res = ValueError
    /\ last_visual_key = Some(TowerKey("A", 3))
    /\ render = Some(led_clear)

\* left by the stop signal while tower A was shown
C23_WitnessStop ==
    /\ pc = "stopped" /\ exit_code = Some(0)
    /\ last_visual_key = Some(TowerKey("A", 4))
    /\ render = Some(led_clear)

\* a call of the tool raised what the loop does not survive
FatalCall ==
    \/ ToolMissing
    \/ link # None /\ link[1].res = ValueError

\* C24: once the stop flag is set the daemon starts no new iteration: the
\* loop test ends the loop, the wait of the iteration in progress adds no
\* sleep to the step's blocking calls, and the loop eventually terminates,
\* with exit code 0 unless a call of the tool raised a fatal error.
C24_StopEndsTheLoop ==
    /\ [][(stop_event /\ pc = "top") => (pc' = "stopped" /\ exit_code' = Some(0))]_vars
    /\ [][(stop_event /\ IndicatorStep) => clock' <= clock + MaxDelay]_vars
    /\ [][(~stop_event /\ IndicatorStep) => clock' >= clock + poll_interval_sec]_vars
    /\ [](pc = "stopped" => (exit_code = Some(0) \/ FatalCall))
    /\ [](pc = "stopped" /\ exit_code = Some(0) => stop_event)
    /\ stop_event ~> pc = "stopped"

\* stopped by the signal after polls on tower A
C24_Witness ==
    /\ pc = "stopped" /\ exit_code = Some(0) /\ stop_event
    /\ link # None /\ LinkOf(link) # None
    /\ clock > MaxStart

(***************************************************************************)
(* Properties of the loop's cadences.                                      *)
(***************************************************************************)
\* C25: in an iteration in which the scan+roam step is due the step, with
\* every disconnect and connect it issues, completes before that iteration's
\* link read: from the due test the only step is the scan+roam step, which
\* leaves the indicator alone, the link is read and the indicator changed
\* only at the poll, and at the poll the step has been made if it was due.
C25_RoamBeforeIndicatorRead ==
    /\ [][(pc = "scan" /\ now - last_scan >= scan_interval_sec /\ pc' # pc)
             => (call' # None /\ link' = link /\ visual_key' = visual_key
                 /\ last_visual_key' = last_visual_key)]_vars
    /\ [][(link' # link \/ visual_key' # visual_key
           \/ last_visual_key' # last_visual_key) => pc = "poll"]_vars
    /\ [][(call' # call /\ call' # None) => (pc = "scan" /\ pc' \in {"poll", "stopped"})]_vars
    /\ [](pc = "poll" => \/ call # None /\ last_scan = now
                         \/ now - last_scan < scan_interval_sec)

\* a roam to B has completed and the loop is at its link read
C25_Witness ==
    /\ pc = "poll" /\ call # None
    /\ Len(TheRun.cmds) = 4
    /\ TheRun.cmds[3].op = "disconnect"
    /\ TheRun.cmds[4].op = "connect" /\ TheRun.cmds[4].res = "True"
    /\ TheRun.cmds[4].ssid = "B"
    /\ last_roam_time = now

\* C26: the scan+roam step is attempted in an iteration if and only if
\* now - last_scan >= scan_interval_sec, last_scan is that iteration's now
\* after every attempt the loop survives (a transiently failing one too) and
\* changes at no other step, so consecutive attempts are at least
\* scan_interval_sec apart; every iteration goes on to the link poll.
C26_ScanCadence ==
    /\ [][(pc = "scan" /\ pc' # pc)
             => /\ call' # None <=> now - last_scan >= scan_interval_sec
                /\ (call' # None /\ pc' = "poll") => last_scan' = now
                /\ call' = None => last_scan' = last_scan
                /\ pc' = "poll" \/ (pc' = "stopped" /\ call' # None
                                       /\ call'[1].exc = FileNotFoundError)]_vars
    /\ [][last_scan' # last_scan => (pc = "scan" /\ call' # None)]_vars
    /\ [][(pc = "top" /\ ~stop_event /\ pc' # pc) => (pc' = "scan" /\ now' = clock)]_vars
    /\ [][(pc = "poll" /\ pc' # pc) => link' # None]_vars

\* a second attempt, right after one that failed with a transport error
C26_Witness ==
    /\ pc = "poll" /\ call # None
    /\ scan_error_active
    /\ TheRun.exc \in TransportErrors
    /\ "Scan/roam step failed" \notin logged
    /\ last_scan = now /\ now >= scan_interval_sec + scan_interval_sec

(***************************************************************************)
(* Properties of maybe_roam in the degenerate observation cases.           *)
(***************************************************************************)
Stays(run) == Returned(run) /\ NoSwitch(run) /\ run.ret = Some(last_roam_time)
\* a scan-sourced entry of the current tower with age_ms present and fresh
HasFreshScanEntry(run) ==
    \E own \in OwnEntry(run) :
       own.source = "scan" /\ own.age_ms # None /\ own.age_ms[1] <= scan_freshness_ms
NothingObserved == call # None /\ TheRun.observed /\ TheRun.seen = <<>>
AloneOnKnownTower ==
    /\ call # None /\ TheRun.observed /\ IsManaged(TheRun.current)
    /\ Others(TheRun.seen, TheRun.current[1].ssid) = {}

\* C27 as stated: maybe_roam stays when no known tower is observed at all,
\* when on a known tower no other tower is observed, and when on a known
\* tower there is no fresh scan entry for it and no link signal, however
\* strong the other towers are.
C27_Original ==
    /\ NothingObserved => Stays(TheRun)
    /\ AloneOnKnownTower => Stays(TheRun)
    /\ (/\ call # None /\ TheRun.observed /\ IsManaged(TheRun.current)
        /\ TheRun.current[1].signal_dbm = None
        /\ ~HasFreshScanEntry(TheRun))
          => Stays(TheRun)

\* C27 amended: the third case is the one in which the map has no entry at
\* all for the current tower (no scan entry of any age and no link signal).
C27_DegenerateStays ==
    /\ NothingObserved => Stays(TheRun)
    /\ AloneOnKnownTower => Stays(TheRun)
    /\ (/\ call # None /\ TheRun.observed /\ IsManaged(TheRun.current)
        /\ OwnEntry(TheRun) = {})
          => Stays(TheRun)

\* on tower A without an observation of it, tower B observed at -65
C27_Witness ==
    /\ call # None /\ TheRun.observed /\ IsManaged(TheRun.current)
    /\ TheRun.current[1].ssid = "A"
    /\ OwnEntry(TheRun) = {}
    /\ \E o \in Others(TheRun.seen, "A") : o.signal_dbm = -65
    /\ Stays(TheRun)

\* associated to an unmanaged network, no known tower observed
C27_WitnessUnmanaged ==
    /\ NothingObserved
    /\ TheRun.current # None /\ ~IsManaged(TheRun.current)
    /\ Stays(TheRun)

(***************************************************************************)
(* IwClient.link: the text of "iw dev <iface> link" to a LinkState.        *)
(* A line of the text is what the tests of lines 119-131 find in it.       *)
(***************************************************************************)
MaxLinkLines == 3

LinkLine(n, b, i, s) == [not_connected |-> n, bssid |-> b, ssid |-> i, signal |-> s]
NotConnectedLine == LinkLine(TRUE, None, None, None)
ConnectedLine(addr) == LinkLine(FALSE, Some(addr), None, None)
SsidLine(t) == LinkLine(FALSE, None, Some(t), None)
LinkSignalLine(t) == LinkLine(FALSE, None, None, Some(t))
LinkOtherLine == LinkLine(FALSE, None, None, None)

\* re.search: the capture of the first line a pattern matches
Search(out, field) ==
    LET hits == {j \in 1..Len(out) : out[j][field] # None}
    IN  IF hits = {} THEN None
        ELSE out[CHOOSE j \in hits : \A k \in hits : j <= k][field]

IwClient_link(out) ==
    LET m_bssid == Search(out, "bssid")
        m_ssid == Search(out, "ssid")
        m_signal == Search(out, "signal")
    IN  IF \E j \in 1..Len(out) : out[j].not_connected
        THEN [exc |-> "", value |-> None]
        ELSE IF m_bssid = None \/ m_ssid = None
        THEN [exc |-> "", value |-> None]
        ELSE IF m_signal = None
        THEN [exc |-> "",
              value |-> Some(LinkState(strip(m_ssid[1]), lower(m_bssid[1]), None))]
        ELSE IF ~IsFloat(m_signal[1])
        THEN [exc |-> ValueError, value |-> None]
        ELSE [exc |-> "",
              value |-> Some(LinkState(strip(m_ssid[1]), lower(m_bssid[1]),
                                       Some(float(m_signal[1]))))]

LinkLines ==
    {NotConnectedLine, ConnectedLine(ADDR_A_UPPER), ConnectedLine(ADDR_X),
     SsidLine("A"), SsidLine("A "), LinkSignalLine("-70.00"), LinkSignalLine("-"),
     LinkOtherLine}
LinkTexts == UNION {[1..n -> LinkLines] : n \in 0..MaxLinkLines}

ReadInit ==
    /\ pc = "link"
    /\ args \in LinkTexts
    /\ result = None
    /\ now = 0 /\ last_roam_time = 0 /\ roam_margin_db = -2 /\ call = None
    /\ DaemonIdle
    /\ ParserIdle

ReadLink ==
    /\ pc = "link"
    /\ result' = Some(IwClient_link(args))
    /\ pc' = "linked"
    /\ UNCHANGED <<args, gpio_vars>>
    /\ UNCHANGED <<clock, now, last_scan, last_roam_time, scan_error_active, stop_event,
                   exit_code, roam_margin_db, call, prev_roam_time, last_boot>>
    /\ UNCHANGED parser_vars
    /\ UNCHANGED indicator_vars

ReadNext == ReadLink

SpecLink == ReadInit /\ [][ReadNext]_vars

(***************************************************************************)
(* Properties of IwClient.link.                                            *)
(***************************************************************************)
LinkRead == pc = "linked"
SaysNotConnected(out) == \E j \in 1..Len(out) : out[j].not_connected
Extractable(out) == Search(out, "bssid") # None /\ Search(out, "ssid") # None

\* C28 as stated: link returns None when the text says not connected or the
\* address or the identity cannot be extracted, otherwise a LinkState with the
\* lowercased address, the identity and the signal if present; it never raises
\* on unparseable text.
C28_Original ==
    LinkRead =>
      /\ result[1].exc = ""
      /\ (SaysNotConnected(args) \/ ~Extractable(args)) => result[1].value = None
      /\ (~SaysNotConnected(args) /\ Extractable(args)) =>
            /\ result[1].value # None
            /\ result[1].value[1].bssid = lower(Search(args, "bssid")[1])
            /\ result[1].value[1].ssid = strip(Search(args, "ssid")[1])
            /\ (Search(args, "signal") = None) <=> (result[1].value[1].signal_dbm = None)

\* what holds: the same, for texts whose signal capture (if any) is a number
C28_ReturnsWhenNumeric ==
    (LinkRead /\ (Search(args, "signal") = None \/ IsFloat(Search(args, "signal")[1]))) =>
      /\ result[1].exc = ""
      /\ (SaysNotConnected(args) \/ ~Extractable(args)) => result[1].value = None
      /\ (~SaysNotConnected(args) /\ Extractable(args)) =>
            /\ result[1].value # None
            /\ result[1].value[1].bssid = lower(Search(args, "bssid")[1])
            /\ result[1].value[1].ssid = strip(Search(args, "ssid")[1])
            /\ (Search(args, "signal") = None) <=> (result[1].value[1].signal_dbm = None)

(***************************************************************************)
(* IwClient.connect as a function of its arguments and the tool's answers. *)
(***************************************************************************)
ConnectArgs ==
    {[ssid |-> i, bssid |-> b, o1 |-> x, o2 |-> y] :
        i \in {"A", "B"}, b \in {None, Some(""), Some(ADDR_A), Some(ADDR_B)},
        x \in RunOutcomes, y \in RunOutcomes}

ConnectInit ==
    /\ pc = "connect"
    /\ args \in ConnectArgs
    /\ result = None
    /\ now = 0 /\ last_roam_time = 0 /\ roam_margin_db = -2 /\ call = None
    /\ DaemonIdle
    /\ ParserIdle

DoConnect ==
    /\ pc = "connect"
    /\ result' = Some(connect(args.ssid, args.bssid, args.o1, args.o2))
    /\ pc' = "connected"
    /\ UNCHANGED <<args, gpio_vars>>
    /\ UNCHANGED <<clock, now, last_scan, last_roam_time, scan_error_active, stop_event,
                   exit_code, roam_margin_db, call, prev_roam_time, last_boot>>
    /\ UNCHANGED parser_vars
    /\ UNCHANGED indicator_vars

ConnectNext == DoConnect

SpecConnect == ConnectInit /\ [][ConnectNext]_vars

(***************************************************************************)
(* Properties of IwClient.connect.                                         *)
(***************************************************************************)
ConnectDone == pc = "connected"
\* the answer of the tool to the n-th command line of the call
Answer(n) == IF n = 1 THEN args.o1 ELSE args.o2
Attempts == result[1].execs

\* C29: with an address the first command is address-qualified; the
\* identity-only command is run only after the first one failed, never after a
\* success; the call reports success iff one of the commands it ran exited 0;
\* without an address exactly one identity-only command is run.
C29_ConnectAttempts ==
    ConnectDone =>
      /\ Truthy(args.bssid) =>
            /\ Len(Attempts) \in {1, 2}
            /\ Attempts[1] = args.bssid
            /\ Len(Attempts) = 2 => (args.o1 = "exit1" /\ Attempts[2] = None)
            /\ args.o1 = "exit0" => Len(Attempts) = 1
      /\ ~Truthy(args.bssid) => Attempts = <<None>>
      /\ (result[1].res = "True") <=>
            (\E n \in 1..Len(Attempts) : Answer(n) = "exit0")

\* the address-qualified command failed and the identity-only one succeeded
C29_Witness ==
    /\ ConnectDone /\ args.bssid = Some(ADDR_B) /\ args.o1 = "exit1" /\ args.o2 = "exit0"
    /\ Attempts = <<Some(ADDR_B), None>> /\ result[1].res = "True"

\* the address-qualified command succeeded: one command, although the second
\* would have succeeded too
C29_WitnessFirst ==
    /\ ConnectDone /\ args.bssid = Some(ADDR_B) /\ args.o1 = "exit0" /\ args.o2 = "exit0"
    /\ Attempts = <<Some(ADDR_B)>> /\ result[1].res = "True"

(***************************************************************************)
(* The cooldown across iterations of the loop.                             *)
(***************************************************************************)
\* the scan+roam step of this iteration was made and maybe_roam returned
StepDone == pc = "poll" /\ call # None /\ Returned(TheRun)
\* ... and its bootstrap or roam connect succeeded
SwitchDone ==
    /\ StepDone
    /\ Ops(TheRun, "connect") # {}
    /\ FirstConnect(TheRun).res = "True"
SwitchedAt(t) == SwitchDone /\ last_roam_time = t
\* a later iteration inside the cooldown of t has made its scan+roam step
StepInCooldownOf(t) ==
    /\ pc \in {"poll", "stopped"} /\ call # None
    /\ t < now /\ now < t + roam_cooldown_sec

\* C30: a successful bootstrap or roam sets last_roam_time to the now of its
\* iteration, and once it was set to t no scan+roam step of a later iteration
\* whose now is less than t + roam_cooldown_sec issues a disconnect or a
\* connect, whatever the scans would report.
C30_NoFlapping ==
    /\ [](SwitchDone => last_roam_time = now)
    /\ \A t \in 0..(MaxTime + roam_cooldown_sec) :
          [](SwitchedAt(t) => [](StepInCooldownOf(t) => NoSwitch(TheRun)))

\* two seconds after a roam that succeeded the step is made and issues nothing
C30_Witness ==
    /\ pc = "poll" /\ call # None
    /\ last_roam_time > 0 /\ prev_roam_time = last_roam_time
    /\ now = last_roam_time + scan_interval_sec
    /\ TheRun.cmds = <<>>

(***************************************************************************)
(* The roam's disconnect and what follows it in the same step.             *)
(***************************************************************************)
\* the step of this iteration took the roam path and its disconnect returned
RoamDisconnected ==
    /\ call # None /\ TheRun.observed /\ IsManaged(TheRun.current)
    /\ \E i \in Ops(TheRun, "disconnect") : TheRun.cmds[i].res = "ok"
\* a connect after the disconnect succeeded on another tower than the previous
ConnectedToCandidate ==
    \E i \in Ops(TheRun, "connect") :
       /\ TheRun.cmds[i].res = "True"
       /\ TheRun.cmds[i].ssid # TheRun.current[1].ssid
\* a connect to the previous tower's identity and address was attempted
RecoveryAttempted ==
    \E i \in Ops(TheRun, "connect") :
       /\ TheRun.cmds[i].ssid = TheRun.current[1].ssid
       /\ TheRun.cmds[i].bssid = Some(TheRun.current[1].bssid)

\* C31 as stated: once maybe_roam has issued the roam's disconnect of a known
\* tower, the step ends only after a successful connect to the candidate or a
\* recovery connect attempt to the previous tower, for every outcome of the
\* connect command including a timeout of the connect call.
C31_Original ==
    RoamDisconnected => (ConnectedToCandidate \/ RecoveryAttempted)

\* what holds: the same when the connect call to the candidate returned
C31_RecoveryWhenConnectReturns ==
    (RoamDisconnected /\ ~Raised(FirstConnect(TheRun)))
        => (ConnectedToCandidate \/ RecoveryAttempted)

(***************************************************************************)
(* What maybe_roam connects to.                                            *)
(***************************************************************************)
RegistryPair(ssid, bssid) == bssid # None /\ MapGet(Registry, bssid[1]) = Some(ssid)

\* C32: every connect call of maybe_roam (bootstrap, roam or recovery) is made
\* with an identity and an address that the registry maps to that identity.
C32_ConnectsNameRegistryPairs ==
    call # None =>
      \A i \in Ops(TheRun, "connect") :
         RegistryPair(TheRun.cmds[i].ssid, TheRun.cmds[i].bssid)

\* associated to identity A on an address that is not A's: the engine leaves
\* that network and connects to a registry pair
C32_Witness ==
    /\ call # None /\ TheRun.observed
    /\ TheRun.current # None /\ TheRun.current[1].ssid = "A"
    /\ TheRun.current[1].bssid = ADDR_X /\ TheRun.current[1].signal_dbm # None
    /\ Ops(TheRun, "connect") # {}
    /\ RegistryPair(FirstConnect(TheRun).ssid, FirstConnect(TheRun).bssid)

\* a roam whose connect failed: the recovery connect names the previous pair
C32_WitnessRecovery ==
    /\ call # None /\ Cardinality(Ops(TheRun, "connect")) = 2
    /\ \A i \in Ops(TheRun, "connect") :
          RegistryPair(TheRun.cmds[i].ssid, TheRun.cmds[i].bssid)

(***************************************************************************)
(* The indicator's and the roam engine's notion of a known association.    *)
(***************************************************************************)
\* the indicator step just made rendered a tower's colour for the link lk
RenderedTowerFor(lk) ==
    /\ lk # None
    /\ render # None /\ render[1].fn = "led_set_strength_color"
\* maybe_roam on the link lk with tower B observed at -65 dBm
RunsOn(lk) ==
    maybe_roam_no_cooldown({[res |-> "ok", value |-> lk]},
                           {[res |-> "ok",
                             text |-> BlockText(ADDR_B, Some("-65.00"), Some("500"))]},
                           roam_margin_db, Registry, now, last_roam_time)
TakesBootstrapPath(lk) == \E run \in RunsOn(lk) : "BOOTSTRAP connect" \in RunLog(run)

\* C33 as stated: whenever the indicator renders a tower's colour for a link
\* state, the roam engine classifies that link state as a managed association
\* and does not take the bootstrap path for it.
C33_Original ==
    link # None =>
       (RenderedTowerFor(LinkOf(link))
           => (IsManaged(LinkOf(link)) /\ ~TakesBootstrapPath(LinkOf(link))))

\* what holds: a link the engine classifies as managed is shown as its tower
C33_ManagedShownAsTower ==
    (/\ link # None /\ link[1].res = "ok"
     /\ IsManaged(link[1].value) /\ visual_key # None)
        => visual_key[1][1] = "tower" /\ visual_key[1][2] = link[1].value[1].ssid

(***************************************************************************)
(* The LED strip against the last applied visual key.                      *)
(***************************************************************************)
UnknownPattern == [i \in 1..pixels |-> IF unknown_mode = "dim_white" THEN DimWhite ELSE Off]
RenderingOf(key) ==
    IF key = None THEN AllOff
    ELSE IF key[1][1] \in {"unknown", "unknown_ssid"} THEN UnknownPattern
    ELSE [i \in 1..pixels |-> IF i <= key[1][3] THEN ColorOf(key[1][2]) ELSE Off]

\* C34: while the loop runs, and so at the end of every iteration, the strip
\* shows the rendering of the last applied visual key: cleared while none was
\* applied, the unknown-mode pattern for an unknown or unknown_ssid key, the
\* tower's colour on exactly level leading pixels for a tower key.
C34_StripShowsLastKey ==
    pc # "stopped" => blinkt.shown = RenderingOf(last_visual_key)

\* an iteration ended on tower A at -70 dBm: three leading pixels in A's colour
C34_Witness ==
    /\ pc = "top" /\ last_visual_key = Some(TowerKey("A", 3))
    /\ render = Some(led_set_strength_color("A", Some(-70)))
    /\ blinkt.shown[3] = ColorOf("A") /\ blinkt.shown[4] = Off

\* an iteration ended under the unknown key, the grace period having elapsed
C34_WitnessUnknown ==
    /\ pc = "top" /\ last_visual_key = Some(UnknownKey)
    /\ assoc_at > 0 /\ blinkt.shown = UnknownPattern

(***************************************************************************)
(* tower_gpio_indicator.py: main, from line 182 on.  A poll answers with   *)
(* the text of "iw dev <iface> station dump" or raises.                    *)
(***************************************************************************)
MaxPins == 2
MaxStationLines == 2
MaxPolls == 3

OSError == "OSError"

\* line 111: the lines STATION_LINE_RE matches
connected_station_count(text) == Cardinality({j \in 1..Len(text) : text[j] = "Station"})

Device(on, closed) == [on |-> on, closed |-> closed]

\* lines 114-119 with every pin following the connection
set_gpio_state_ignores_mask(devs, mask, is_connected) ==
    [i \in 1..Len(devs) |-> Device(is_connected, devs[i].closed)]

\* lines 114-119
set_gpio_state(devs, mask, is_connected) ==
    [i \in 1..Len(devs) |-> Device(is_connected /\ mask[i], devs[i].closed)]

\* line 190 taken on every successful poll
Recovered_always(active) == TRUE

\* line 190
Recovered(active) == active

\* line 212
OutputsChanged(connected, count, last_connected_, last_count_) ==
    Some(connected) # last_connected_ \/ Some(count) # last_count_

StationTexts == UNION {[1..n -> {"Station", "other"}] : n \in 0..MaxStationLines}
StationPolls ==
    {[res |-> "ok", text |-> t] : t \in StationTexts} \cup
    {[res |-> e, text |-> <<>>] :
        e \in {TimeoutExpired, CalledProcessError, FileNotFoundError, OSError}}

\* the state at line 186
GpioInit ==
    /\ pc = "gpio"
    /\ now = 0 /\ last_roam_time = 0 /\ roam_margin_db = -2 /\ call = None
    /\ LoopIdle /\ ParserIdle /\ FnIdle
    /\ gpio_pc = "loop"
    /\ on_mask \in UNION {[1..n -> BOOLEAN] : n \in 1..MaxPins}
    /\ devices = [i \in 1..Len(on_mask) |-> Device(FALSE, FALSE)]
    /\ last_connected = None /\ last_count = None /\ poll_error_active = FALSE
    /\ gpio_stop = FALSE /\ gpio_exit = None /\ gpio_logged = <<>>
    /\ poll_res = None /\ rewrote = FALSE /\ at_close = None /\ polls = 0

GpioRest ==
    /\ UNCHANGED <<daemon_vars, indicator_vars, parser_vars, fn_vars>>
    /\ UNCHANGED on_mask

\* lines 220-224 after the lines in lines were logged
GpioFinally(lines) ==
    LET off == set_gpio_state(devices, on_mask, FALSE) IN
    /\ at_close' = Some([i \in 1..Len(off) |-> off[i].on])
    /\ devices' = [i \in 1..Len(off) |-> Device(off[i].on, TRUE)]
    /\ gpio_logged' = lines \o <<"Stopped; GPIO outputs cleared">>
    /\ gpio_pc' = "stopped"

\* on_signal
GpioSignal ==
    /\ gpio_pc = "loop" /\ ~gpio_stop
    /\ gpio_stop' = TRUE
    /\ UNCHANGED <<gpio_pc, devices, last_connected, last_count, poll_error_active,
                   gpio_exit, gpio_logged, poll_res, rewrote, at_close, polls>>
    /\ GpioRest

\* line 187 with the event set, then lines 220-226
GpioStop ==
    /\ gpio_pc = "loop" /\ gpio_stop
    /\ GpioFinally(<<>>)
    /\ gpio_exit' = Some([code |-> 0, exc |-> ""])
    /\ rewrote' = FALSE
    /\ UNCHANGED <<last_connected, last_count, poll_error_active, gpio_stop, poll_res,
                   polls>>
    /\ GpioRest

\* lines 187-219: one iteration of the loop
GpioPoll ==
    /\ gpio_pc = "loop" /\ ~gpio_stop /\ polls < MaxPolls
    /\ \E r \in StationPolls :
         /\ poll_res' = Some(r)
         /\ polls' = polls + 1
         /\ IF r.res = "ok"
            THEN LET count == connected_station_count(r.text)
                     connected == count > 0
                     recovery == IF Recovered(poll_error_active)
                                 THEN <<"Station polling recovered">> ELSE <<>>
                 IN  /\ poll_error_active' = FALSE
                     /\ IF OutputsChanged(connected, count, last_connected, last_count)
                        THEN /\ devices' = set_gpio_state(devices, on_mask, connected)
                             /\ rewrote' = TRUE
                             /\ gpio_logged' = recovery \o <<"Clients connected">>
                             /\ last_connected' = Some(connected)
                             /\ last_count' = Some(count)
                        ELSE /\ rewrote' = FALSE
                             /\ gpio_logged' = recovery
                             /\ UNCHANGED <<devices, last_connected, last_count>>
                     /\ UNCHANGED <<gpio_pc, gpio_exit, at_close>>
            ELSE IF r.res = FileNotFoundError
            THEN /\ GpioFinally(<<"'iw' command not found">>)
                 /\ gpio_exit' = Some([code |-> 1, exc |-> ""])
                 /\ rewrote' = FALSE
                 /\ UNCHANGED <<last_connected, last_count, poll_error_active>>
            ELSE IF r.res \in {TimeoutExpired, CalledProcessError}
            THEN /\ gpio_logged' =
                        IF poll_error_active THEN <<>>
                        ELSE IF r.res = TimeoutExpired
                        THEN <<"Timed out polling stations">>
                        ELSE <<"Failed polling stations">>
                 /\ poll_error_active' = TRUE
                 /\ rewrote' = FALSE
                 /\ UNCHANGED <<gpio_pc, gpio_exit, at_close, devices, last_connected,
                                last_count>>
            ELSE /\ GpioFinally(<<>>)
                 /\ gpio_exit' = Some([code |-> 1, exc |-> r.res])
                 /\ rewrote' = FALSE
                 /\ UNCHANGED <<last_connected, last_count, poll_error_active>>
    /\ UNCHANGED gpio_stop
    /\ GpioRest

GpioNext == GpioSignal \/ GpioStop \/ GpioPoll

SpecGpio == GpioInit /\ [][GpioNext]_vars

(***************************************************************************)
(* Properties of the tower GPIO indicator.                                 *)
(***************************************************************************)
GpioPollStep == polls' = polls + 1
PollOk(r) == r # None /\ r[1].res = "ok"
PollFailed(r) == r # None /\ r[1].res \in {TimeoutExpired, CalledProcessError}
CountOf(r) == connected_station_count(r[1].text)
Occurrences(lines, kinds) == Cardinality({j \in 1..Len(lines) : lines[j] \in kinds})

OutputsFollowCount ==
    (gpio_pc = "loop" /\ PollOk(poll_res))
        => \A i \in 1..Len(devices) :
              devices[i].on <=> (CountOf(poll_res) > 0 /\ on_mask[i])
RewrittenOnlyOnNewCount ==
    GpioPollStep
        => /\ rewrote' => (PollOk(poll_res') /\ Some(CountOf(poll_res')) # last_count)
           /\ devices' # devices => (rewrote' \/ gpio_pc' = "stopped")
OffBeforeClose ==
    gpio_pc = "stopped"
        => /\ at_close # None
           /\ \A i \in 1..Len(devices) : ~at_close[1][i] /\ devices[i].closed
           /\ gpio_exit # None

\* C35: after every successful poll each output is on iff at least one station
\* is connected and the pin's on_mask entry is true; a poll rewrites the
\* outputs only when the station count differs from the last applied count;
\* on every exit path all outputs are switched off before the devices are closed.
C35_GpioOutputs ==
    /\ []OutputsFollowCount
    /\ [][RewrittenOnlyOnNewCount]_vars
    /\ []OffBeforeClose

\* a second poll with the same two stations: pin 2 stays on, nothing rewritten
C35_Witness ==
    /\ gpio_pc = "loop" /\ PollOk(poll_res) /\ CountOf(poll_res) = 2
    /\ on_mask = <<FALSE, TRUE>>
    /\ devices[2].on /\ ~devices[1].on
    /\ ~rewrote /\ last_count = Some(2)

\* the tool went missing while pin 1 was on: switched off, then closed
C35_WitnessExit ==
    /\ gpio_pc = "stopped" /\ gpio_exit = Some([code |-> 1, exc |-> ""])
    /\ last_connected = Some(TRUE) /\ on_mask = <<TRUE>>
    /\ at_close = Some(<<FALSE>>) /\ devices[1].closed

GpioWarnings == {"Timed out polling stations", "Failed polling stations"}

\* C36: in a run of consecutive failed polls (timeout or non-zero exit) only
\* the first emits a warning, exactly one, and no failed poll touches the
\* outputs; the first successful poll after the run emits exactly one recovery
\* message, a successful poll with no failure before it emits none.
C36_WarnOnceRecoverOnce ==
    [][GpioPollStep =>
         /\ PollFailed(poll_res') =>
               /\ Occurrences(gpio_logged', GpioWarnings)
                    = IF PollFailed(poll_res) THEN 0 ELSE 1
               /\ devices' = devices /\ ~rewrote'
         /\ PollOk(poll_res') =>
               /\ Occurrences(gpio_logged', {"Station polling recovered"})
                    = IF PollFailed(poll_res) THEN 1 ELSE 0
               /\ Occurrences(gpio_logged', GpioWarnings) = 0]_vars

\* the last poll of the horizon succeeded after a failed one and logged the recovery
C36_Witness ==
    /\ polls = MaxPolls /\ PollOk(poll_res)
    /\ gpio_logged # <<>> /\ gpio_logged[1] = "Station polling recovered"
    /\ last_count = Some(1) /\ rewrote

\* a timeout followed by a non-zero exit: the second poll logs nothing
C36_WitnessSilent ==
    /\ polls = 2 /\ PollFailed(poll_res) /\ poll_res[1].res = CalledProcessError
    /\ poll_error_active /\ gpio_logged = <<>> /\ last_count = None

====
